---- MODULE Spec2Model ----
(***************************************************************************)
(* RFC 9421 HTTP message signatures of sage-crypto-core: canonicalization, *)
(* Signature-Input / Signature header codec, signer and verifier.          *)
(*                                                                         *)
(* Strings are sequences of characters.  A character is a record           *)
(* [ch, sig]: ch is the one-character text and sig = <<>>, except for the  *)
(* characters that stand for the base64 text of a cryptographic signature  *)
(* (ch = "", sig = <<key, signature base>>): signatures are symbolic, the  *)
(* curve arithmetic of ed25519_dalek / k256 is not computed.               *)
(***************************************************************************)
EXTENDS Integers, Sequences, FiniteSets, TLC

VARIABLES
    clock,      \* the wall clock, Unix seconds (SystemTime::now)
    msg,        \* the HTTP message travelling from signer to verifier
    sgn,        \* outcome of the last sign_request / sign_response call
    vres,       \* outcome of the last verify_request / verify_response call
    nsign,      \* number of sign calls made so far
    ntamper,    \* number of modifications made to the message in transit
    canonIn,    \* input of the last direct canonicalize_* call
    canonOut,   \* its result, with the signature base built from it
    par,        \* a SignatureParams value, its serialization and its parse
    kps,        \* the key pairs constructed so far, with their constructor
    cry         \* the last direct call of a key primitive, with its result

vars ==
    <<clock, msg, sgn, vres, nsign, ntamper, canonIn, canonOut, par, kps, cry>>

----------------------------------------------------------------------------
(* Bounds of the model *)

MaxSigns == 2       \* sign calls per behaviour
MaxTamper == 1      \* in-transit modifications per behaviour
T0 == 1700000000    \* the signer's clock at the start
MaxComps == 2       \* length of the component lists given to canonicalize_*
MaxKeyPairs == 2
MaxTicks == 2    \* key pairs constructed per behaviour

----------------------------------------------------------------------------
(* Strings *)

Ch(c) == [ch |-> c, sig |-> <<>>]

\* a string literal, written as the tuple of its characters
S(t) == [i \in 1..Len(t) |-> Ch(t[i])]

\* the byte 0xE9: a header value byte that is not visible ASCII
OBS == Ch("xE9")

QUOTE == Ch("\"")
LF == Ch("\n")

RECURSIVE Concat(_)
\* concatenation of a sequence of strings
Concat(ss) == IF ss = <<>> THEN <<>> ELSE Head(ss) \o Concat(Tail(ss))

RECURSIVE Join(_, _)
\* [String]::join(sep)
Join(ss, sep) ==
    IF ss = <<>> THEN <<>>
    ELSE IF Len(ss) = 1 THEN ss[1]
    ELSE ss[1] \o sep \o Join(Tail(ss), sep)

IndexFrom(s, c, i) ==
    LET hits == {j \in i..Len(s) : s[j] = c}
    IN  IF hits = {} THEN 0 ELSE CHOOSE j \in hits : \A k \in hits : j <= k

\* position of the first occurrence of character c in s, 0 when absent
IndexOf(s, c) == IndexFrom(s, c, 1)

RECURSIVE Split(_, _)
\* str::split(c): the pieces between the occurrences of c, empty ones kept
Split(s, c) ==
    LET i == IndexOf(s, c)
    IN  IF i = 0 THEN <<s>>
        ELSE <<SubSeq(s, 1, i - 1)>> \o Split(SubSeq(s, i + 1, Len(s)), c)

\* str::starts_with(p)
StartsWith(s, p) == Len(s) >= Len(p) /\ SubSeq(s, 1, Len(p)) = p

\* &s[n..] with n counted from 0; the caller guards n <= len (else panic)
From(s, n) == SubSeq(s, n + 1, Len(s))

Upper == <<"A","B","C","D","E","F","G","H","I","J","K","L","M",
           "N","O","P","Q","R","S","T","U","V","W","X","Y","Z">>
Lower == <<"a","b","c","d","e","f","g","h","i","j","k","l","m",
           "n","o","p","q","r","s","t","u","v","w","x","y","z">>
Digits == <<"0","1","2","3","4","5","6","7","8","9">>

Range(f) == {f[i] : i \in DOMAIN f}

ToLowerCh(c) ==
    IF c.sig = <<>> /\ c.ch \in Range(Upper)
    THEN Ch(Lower[CHOOSE i \in 1..26 : Upper[i] = c.ch])
    ELSE c

\* str::to_lowercase
to_lowercase(s) == [i \in 1..Len(s) |-> ToLowerCh(s[i])]

\* char::is_whitespace, on the characters of the model
IsWhitespace(c) == c.sig = <<>> /\ c.ch \in {" ", "\t"}

RECURSIVE TrimStartMatches(_, _)
\* str::trim_start_matches(c)
TrimStartMatches(s, c) ==
    IF s # <<>> /\ Head(s) = c THEN TrimStartMatches(Tail(s), c) ELSE s

RECURSIVE TrimEndMatches(_, _)
TrimEndMatches(s, c) ==
    IF s # <<>> /\ s[Len(s)] = c
    THEN TrimEndMatches(SubSeq(s, 1, Len(s) - 1), c) ELSE s

\* str::trim_matches(c)
TrimMatches(s, c) == TrimEndMatches(TrimStartMatches(s, c), c)

RECURSIVE TrimStartWs(_)
TrimStartWs(s) ==
    IF s # <<>> /\ IsWhitespace(Head(s)) THEN TrimStartWs(Tail(s)) ELSE s

RECURSIVE TrimEndWs(_)
TrimEndWs(s) ==
    IF s # <<>> /\ IsWhitespace(s[Len(s)])
    THEN TrimEndWs(SubSeq(s, 1, Len(s) - 1)) ELSE s

\* str::trim
Trim(s) == TrimEndWs(TrimStartWs(s))

RECURSIVE SplitWhitespace(_)
\* str::split_whitespace: the maximal runs of non-whitespace characters
SplitWhitespace(s) ==
    LET t == TrimStartWs(s)
        ws == {i \in 1..Len(t) : IsWhitespace(t[i])}
        e == IF ws = {} THEN Len(t) + 1
             ELSE CHOOSE i \in ws : \A j \in ws : i <= j
    IN  IF t = <<>> THEN <<>>
        ELSE <<SubSeq(t, 1, e - 1)>> \o SplitWhitespace(SubSeq(t, e, Len(t)))

RECURSIVE ToDecNat(_)
ToDecNat(n) ==
    IF n < 10 THEN <<Ch(Digits[n + 1])>>
    ELSE ToDecNat(n \div 10) \o <<Ch(Digits[(n % 10) + 1])>>

\* Display of an i64: decimal digits, '-' in front of a negative number
ToDec(n) == IF n < 0 THEN <<Ch("-")>> \o ToDecNat(0 - n) ELSE ToDecNat(n)

\* Option<T>
Some(x) == [some |-> TRUE, v |-> x]
NoneStr == [some |-> FALSE, v |-> <<>>]
NoneInt == [some |-> FALSE, v |-> 0]

DigitVal(c) == (CHOOSE i \in 1..10 : Digits[i] = c.ch) - 1
IsDigit(c) == c.sig = <<>> /\ c.ch \in Range(Digits)

RECURSIVE DecVal(_)
DecVal(s) == IF s = <<>> THEN 0
             ELSE 10 * DecVal(SubSeq(s, 1, Len(s) - 1)) + DigitVal(s[Len(s)])

\* str::parse::<i64>().ok(): an optional sign and at least one digit.  The
\* model draws numbers of at most ten digits, far inside the range of i64,
\* so the overflow error of parse is not reachable here.
ParseI64(s) ==
    LET neg == s # <<>> /\ Head(s) = Ch("-")
        signed == s # <<>> /\ Head(s) \in {Ch("-"), Ch("+")}
        d == IF signed THEN Tail(s) ELSE s
    IN  IF d = <<>> \/ \E i \in 1..Len(d) : ~IsDigit(d[i])
        THEN NoneInt
        ELSE Some(IF neg THEN 0 - DecVal(d) ELSE DecVal(d))

----------------------------------------------------------------------------
(* Results: Ok(v) or Err(kind, text) of crate::error::Error *)

Ok(x) == [ok |-> TRUE, v |-> x, kind |-> "Ok", text |-> ""]
Err(k, t) == [ok |-> FALSE, v |-> <<>>, kind |-> k, text |-> t]

\* the ? operator: the value of an Ok result is passed on, an error is
\* what the function returns
Try(r, K(_)) == IF r.ok THEN K(r.v) ELSE r

\* let x = v; ... : the value is computed once and named
Let(v, K(_)) == K(v)

----------------------------------------------------------------------------
(* Components (rfc9421/components.rs) *)

Comp(t) == [t |-> t, name |-> <<>>, params |-> <<>>]
Method == Comp("Method")
TargetUri == Comp("TargetUri")
Authority == Comp("Authority")
Scheme == Comp("Scheme")
RequestTarget == Comp("RequestTarget")
Path == Comp("Path")
Query == Comp("Query")
Status == Comp("Status")
Header(n) == [t |-> "Header", name |-> n, params |-> <<>>]
DerivedComponent(n, ps) == [t |-> "DerivedComponent", name |-> n, params |-> ps]

DerivedRequestTypes ==
    {"Method", "TargetUri", "Authority", "Scheme", "RequestTarget", "Path", "Query"}

AT == Ch("@")

AT_METHOD == S(<<"@","m","e","t","h","o","d">>)
AT_TARGET_URI == S(<<"@","t","a","r","g","e","t","-","u","r","i">>)
AT_AUTHORITY == S(<<"@","a","u","t","h","o","r","i","t","y">>)
AT_SCHEME == S(<<"@","s","c","h","e","m","e">>)
AT_REQUEST_TARGET ==
    S(<<"@","r","e","q","u","e","s","t","-","t","a","r","g","e","t">>)
AT_PATH == S(<<"@","p","a","t","h">>)
AT_QUERY == S(<<"@","q","u","e","r","y">>)
AT_STATUS == S(<<"@","s","t","a","t","u","s">>)

\* SignatureComponent::identifier
identifier(c) ==
    CASE c.t = "Method" -> AT_METHOD
      [] c.t = "TargetUri" -> AT_TARGET_URI
      [] c.t = "Authority" -> AT_AUTHORITY
      [] c.t = "Scheme" -> AT_SCHEME
      [] c.t = "RequestTarget" -> AT_REQUEST_TARGET
      [] c.t = "Path" -> AT_PATH
      [] c.t = "Query" -> AT_QUERY
      [] c.t = "Status" -> AT_STATUS
      [] c.t = "Header" -> to_lowercase(c.name)
      [] c.t = "DerivedComponent" ->
            IF c.params = <<>> THEN <<AT>> \o c.name
            ELSE <<AT>> \o c.name \o <<Ch(";")>> \o Join(c.params, <<Ch(";")>>)

----------------------------------------------------------------------------
(* HTTP messages (http::Request, http::Response, http::HeaderMap, http::Uri) *)

\* the characters a header field name may consist of (http::HeaderName)
HeaderNameChars ==
    {Ch(Lower[i]) : i \in 1..26} \cup {Ch(Upper[i]) : i \in 1..26}
        \cup {Ch(Digits[i]) : i \in 1..10} \cup {Ch("-"), Ch("_")}

IsValidHeaderName(n) == n # <<>> /\ \A i \in 1..Len(n) : n[i] \in HeaderNameChars

\* HeaderValue::to_str succeeds: every byte is visible ASCII (or a tab)
IsVisibleAscii(v) == \A i \in 1..Len(v) : v[i] # OBS /\ v[i] # LF

\* HeaderValue::from_str succeeds: no control character
IsValidHeaderValue(v) == \A i \in 1..Len(v) : v[i] # LF

\* HeaderMap::get_all(name): the values of the fields of that name, in
\* order; names compare case-insensitively, an invalid name matches nothing
get_all(headers, name) ==
    IF ~IsValidHeaderName(name) THEN <<>>
    ELSE LET idx == {i \in 1..Len(headers) : headers[i].name = to_lowercase(name)}
             f[k \in 0..Len(headers)] ==
                 IF k = 0 THEN <<>>
                 ELSE IF k \in idx THEN f[k - 1] \o <<headers[k].value>>
                 ELSE f[k - 1]
         IN  f[Len(headers)]

\* HeaderMap::get(name): the first value of that name
header_get(headers, name) ==
    Let(get_all(headers, name),
        LAMBDA vs : IF vs = <<>> THEN NoneStr ELSE Some(vs[1]))

\* HeaderMap::insert(name, value): replaces every value of that name
header_insert(headers, name, value) ==
    SelectSeq(headers, LAMBDA h : h.name # name)
        \o <<[name |-> name, value |-> value]>>

\* Display of http::Uri
uri_to_string(u) ==
    (IF u.scheme.some THEN u.scheme.v \o S(<<":","/","/">>) ELSE <<>>)
        \o (IF u.authority.some THEN u.authority.v ELSE <<>>)
        \o u.path
        \o (IF u.query.some THEN <<Ch("?")>> \o u.query.v ELSE <<>>)

----------------------------------------------------------------------------
(* Canonicalization (rfc9421/canonicalize.rs) *)

\* a variant of get_header_value that takes the first matching value only
get_header_value_first(headers, name) ==
    Let(get_all(headers, name),
        LAMBDA values :
            IF \E i \in 1..Len(values) : ~IsVisibleAscii(values[i])
            THEN Err("InvalidInput", "Invalid header value")
            ELSE IF values = <<>>
            THEN Err("InvalidInput", "Header not found")
            ELSE Ok(values[1]))

\* get_header_value: the matching values joined by ", "
get_header_value(headers, name) ==
    Let(get_all(headers, name),
        LAMBDA values :
            IF \E i \in 1..Len(values) : ~IsVisibleAscii(values[i])
            THEN Err("InvalidInput", "Invalid header value")
            ELSE IF values = <<>>
            THEN Err("InvalidInput", "Header not found")
            ELSE Ok(Join(values, S(<<",", " ">>))))

\* a variant of query_value with the empty string for an absent query
query_value_empty(uri) ==
    IF uri.query.some THEN <<Ch("?")>> \o uri.query.v ELSE <<>>

\* the value of @query: "?" and the query, "?" alone without a query
query_value(uri) ==
    IF uri.query.some THEN <<Ch("?")>> \o uri.query.v ELSE <<Ch("?")>>

\* one iteration of the loop of canonicalize_request: the (name, value)
\* pair of the component, or the error the loop returns with
request_component(request, component) ==
    CASE component.t = "Method" -> Ok(<<AT_METHOD, request.method>>)
      [] component.t = "TargetUri" ->
            Ok(<<AT_TARGET_URI, uri_to_string(request.uri)>>)
      [] component.t = "Authority" ->
            IF request.uri.authority.some
            THEN Ok(<<AT_AUTHORITY, request.uri.authority.v>>)
            ELSE Err("InvalidInput", "Missing authority in URI")
      [] component.t = "Scheme" ->
            IF request.uri.scheme.some
            THEN Ok(<<AT_SCHEME, request.uri.scheme.v>>)
            ELSE Err("InvalidInput", "Missing scheme in URI")
      [] component.t = "RequestTarget" ->
            Ok(<<AT_REQUEST_TARGET,
                 request.uri.path
                     \o (IF request.uri.query.some
                         THEN <<Ch("?")>> \o request.uri.query.v ELSE <<>>)>>)
      [] component.t = "Path" -> Ok(<<AT_PATH, request.uri.path>>)
      [] component.t = "Query" -> Ok(<<AT_QUERY, query_value(request.uri)>>)
      [] component.t = "Status" ->
            Err("InvalidInput", "@status component not valid for requests")
      [] component.t = "Header" ->
            Try(get_header_value(request.headers, component.name),
                LAMBDA value : Ok(<<to_lowercase(component.name), value>>))
      [] component.t = "DerivedComponent" ->
            Err("Unsupported", "Custom derived components not yet supported")

\* a variant of response_component that skips over the components of a
\* request instead of rejecting them
response_component_lenient(response, component) ==
    CASE component.t = "Status" -> Ok(<<AT_STATUS, ToDec(response.status)>>)
      [] component.t = "Header" ->
            Try(get_header_value(response.headers, component.name),
                LAMBDA value : Ok(<<to_lowercase(component.name), value>>))
      [] component.t \in DerivedRequestTypes ->
            Ok(<<identifier(component), <<>> >>)
      [] component.t = "DerivedComponent" ->
            Err("Unsupported", "Custom derived components not yet supported")

\* one iteration of the loop of canonicalize_response
response_component(response, component) ==
    CASE component.t = "Status" -> Ok(<<AT_STATUS, ToDec(response.status)>>)
      [] component.t = "Header" ->
            Try(get_header_value(response.headers, component.name),
                LAMBDA value : Ok(<<to_lowercase(component.name), value>>))
      [] component.t \in DerivedRequestTypes ->
            Err("InvalidInput", "component not valid for responses")
      [] component.t = "DerivedComponent" ->
            Err("Unsupported", "Custom derived components not yet supported")

RECURSIVE canonicalize_request(_, _)
\* canonicalize_request: the pairs in the order of the components; the first
\* component that fails ends the loop and its error is the result
canonicalize_request(request, components) ==
    IF components = <<>> THEN Ok(<<>>)
    ELSE Try(canonicalize_request(
                 request, SubSeq(components, 1, Len(components) - 1)),
             LAMBDA canonical_values :
                 Try(request_component(request, components[Len(components)]),
                     LAMBDA pair : Ok(Append(canonical_values, pair))))

RECURSIVE canonicalize_response(_, _)
\* canonicalize_response
canonicalize_response(response, components) ==
    IF components = <<>> THEN Ok(<<>>)
    ELSE Try(canonicalize_response(
                 response, SubSeq(components, 1, Len(components) - 1)),
             LAMBDA canonical_values :
                 Try(response_component(response, components[Len(components)]),
                     LAMBDA pair : Ok(Append(canonical_values, pair))))

canonicalize(message, components) ==
    IF message.kind = "request" THEN canonicalize_request(message, components)
    ELSE canonicalize_response(message, components)

SIGPARAMS ==
    S(<<"@","s","i","g","n","a","t","u","r","e","-","p","a","r","a","m","s">>)

\* format!("\"{}\": {}", name, value)
base_line(name, value) == <<QUOTE>> \o name \o <<QUOTE, Ch(":"), Ch(" ")>> \o value

\* a variant of build_signature_base with the params line in front
build_signature_base_params_first(components, signature_params) ==
    LET lines == <<base_line(SIGPARAMS, signature_params)>>
                 \o [i \in 1..Len(components) |->
                        base_line(components[i][1], components[i][2])]
    IN  Join(lines, <<LF>>)

\* build_signature_base
build_signature_base(components, signature_params) ==
    LET lines == [i \in 1..Len(components) |->
                     base_line(components[i][1], components[i][2])]
                 \o <<base_line(SIGPARAMS, signature_params)>>
    IN  Join(lines, <<LF>>)

----------------------------------------------------------------------------
(* The messages, keys and component lists the model draws its inputs from *)

NoUri == [scheme |-> NoneStr, authority |-> NoneStr, path |-> <<>>, query |-> NoneStr]

Hdr(n, v) == [name |-> n, value |-> v]

CONTENT_TYPE == S(<<"c","o","n","t","e","n","t","-","t","y","p","e">>)
SIGNATURE == S(<<"s","i","g","n","a","t","u","r","e">>)
SIGNATURE_INPUT ==
    S(<<"s","i","g","n","a","t","u","r","e","-","i","n","p","u","t">>)
X_TAG == S(<<"x","-","t","a","g">>)

\* POST https://a.io/p?q=1 with a content-type and a repeated x-tag field
ReqFull ==
    [kind |-> "request", method |-> S(<<"P","O","S","T">>),
     uri |-> [scheme |-> Some(S(<<"h","t","t","p","s">>)),
              authority |-> Some(S(<<"a",".","i","o">>)),
              path |-> S(<<"/","p">>),
              query |-> Some(S(<<"q","=","1">>))],
     status |-> 0,
     headers |-> <<Hdr(CONTENT_TYPE, S(<<"t","/","j">>)),
                   Hdr(X_TAG, S(<<"a">>)), Hdr(X_TAG, S(<<"b"," ">>))>>,
     body |-> S(<<"x">>)]

\* GET / : neither scheme, authority nor query, and a field value that is
\* not visible ASCII
ReqBare ==
    [kind |-> "request", method |-> S(<<"G","E","T">>),
     uri |-> [scheme |-> NoneStr, authority |-> NoneStr,
              path |-> S(<<"/">>), query |-> NoneStr],
     status |-> 0,
     headers |-> <<Hdr(X_TAG, <<Ch("c"), OBS>>)>>,
     body |-> <<>>]

\* GET https://a.io/p that already carries a Signature header of an
\* upstream hop
ReqUpstream ==
    [kind |-> "request", method |-> S(<<"G","E","T">>),
     uri |-> [scheme |-> Some(S(<<"h","t","t","p","s">>)),
              authority |-> Some(S(<<"a",".","i","o">>)),
              path |-> S(<<"/","p">>),
              query |-> NoneStr],
     status |-> 0,
     headers |-> <<Hdr(SIGNATURE, S(<<"s","i","g","1","=",":","A","A","A","A">>)),
                   Hdr(SIGNATURE_INPUT, S(<<"s","i","g","1","=","(",")">>))>>,
     body |-> <<>>]

RespFull ==
    [kind |-> "response", method |-> <<>>, uri |-> NoUri, status |-> 201,
     headers |-> <<Hdr(CONTENT_TYPE, S(<<"t","/","j">>)),
                   Hdr(X_TAG, S(<<"a">>))>>,
     body |-> S(<<"x">>)]

RespBare ==
    [kind |-> "response", method |-> <<>>, uri |-> NoUri, status |-> 404,
     headers |-> <<>>, body |-> <<>>]

\* the messages handed to a signer
Messages == {ReqFull, ReqBare, ReqUpstream, RespFull}

\* the messages handed to the canonicalizer
CanonMessages == {ReqFull, ReqBare, RespFull, RespBare}

\* the components a list given to canonicalize_* is made of
Components ==
    {Method, TargetUri, Authority, Scheme, RequestTarget, Path, Query, Status,
     Header(CONTENT_TYPE), Header(S(<<"X","-","T","a","g">>)),
     DerivedComponent(S(<<"x">>), <<>>)}

ComponentLists == UNION {[1..n -> Components] : n \in 0..MaxComps}

\* the params lines a signature base is built with
ParamsLines ==
    {S(<<"(",")">>),
     S(<<"(",")",";","c","r","e","a","t","e","d","=","1">>)}

----------------------------------------------------------------------------
(* Keys and the signature primitives (crypto/keys.rs, crypto/signature.rs) *)

Keys == {"KA", "KB", "KC"}

\* every public key of the model that a private key has: KA, KB and KD are
\* Ed25519 keys, KC and KE are secp256k1 keys
PublicKeys == {"KA", "KB", "KC", "KD", "KE"}

\* PublicKey values whose bytes are no curve point: KX holds 32 bytes that
\* do not decompress (Ed25519), KY holds 33 bytes with the leading byte
\* 0x05 and KZ 33 bytes with the leading byte 0x02 and an x that is not on
\* the curve (secp256k1)
InvalidPublicKeys == {"KX", "KY", "KZ"}

\* PublicKey::key_type / KeyPair::key_type
key_type(k) == IF k \in {"KC", "KE", "KY", "KZ"} THEN "Secp256k1" ELSE "Ed25519"

\* Sha256 over PublicKey::to_bytes.  The hash is not computed: each key of
\* the model has a digest of its own, 32 bytes long.
Sha256(k) ==
    (CASE k = "KA" -> <<171, 18, 205, 52, 239, 86, 120, 144>>
       [] k = "KB" -> <<1, 35, 69, 103, 137, 171, 205, 239>>
       [] k = "KC" -> <<255, 0, 170, 17, 187, 34, 204, 51>>
       [] k = "KD" -> <<10, 11, 12, 13, 14, 15, 16, 17>>
       [] k = "KE" -> <<9, 153, 160, 250, 0, 1, 2, 3>>)
        \o [i \in 1..24 |-> 7 * i]

HexDigits ==
    <<"0","1","2","3","4","5","6","7","8","9","a","b","c","d","e","f">>

\* hex::encode: two lowercase hex digits per byte, the high nibble first
hex_encode(bytes) ==
    [i \in 1..(2 * Len(bytes)) |->
        Ch(HexDigits[(IF i % 2 = 1 THEN bytes[(i + 1) \div 2] \div 16
                      ELSE bytes[i \div 2] % 16) + 1])]

\* PublicKey::key_id: hex of the first 8 bytes of SHA-256 of the key bytes
key_id(k) == hex_encode(SubSeq(Sha256(k), 1, 8))

\* a variant of generate_key_id that encodes the first 7 bytes only
generate_key_id_short(public_key) == hex_encode(SubSeq(Sha256(public_key), 1, 7))

\* KeyPair::generate_key_id
generate_key_id(public_key) == hex_encode(SubSeq(Sha256(public_key), 1, 8))

\* impl Signer for KeyPair: the signature of the key over the message
keypair_sign(k, message) == [alg |-> key_type(k), key |-> k, base |-> message]

\* impl Verifier for PublicKey
publickey_verify_any_message(k, message, signature) ==
    IF key_type(k) # signature.alg
    THEN Err("InvalidKeyType", "Key type mismatch")
    ELSE IF signature.key = k THEN Ok(<<>>)
    ELSE Err("Verification", "signature verification failed")

\* a variant of verify that reports a key of the other algorithm as a failed
\* verification
publickey_verify_mismatch_as_failure(k, message, signature) ==
    IF signature.key = k /\ signature.base = message /\ key_type(k) = signature.alg
    THEN Ok(<<>>)
    ELSE Err("Verification", "signature verification failed")

publickey_verify(k, message, signature) ==
    IF key_type(k) # signature.alg
    THEN Err("InvalidKeyType", "Key type mismatch")
    ELSE IF k \in InvalidPublicKeys
    THEN Err("Verification", "Invalid public key")
    ELSE IF signature.key = k /\ signature.base = message THEN Ok(<<>>)
    ELSE Err("Verification", "signature verification failed")

\* Signature::to_bytes: 64 raw bytes for Ed25519, DER for secp256k1 (the
\* DER length is 70 to 72 bytes, never 64)
signature_to_bytes(signature) ==
    [len |-> IF signature.alg = "Ed25519" THEN 64 ELSE 71,
     sig |-> <<signature.key, signature.base>>]

\* general_purpose::STANDARD.encode of signature bytes: one symbolic
\* character standing for the whole base64 text
base64_encode(bytes) == <<[ch |-> "", sig |-> bytes.sig]>>

Base64Alphabet ==
    Range(Upper) \cup Range(Lower) \cup Range(Digits) \cup {"+", "/"}

\* general_purpose::STANDARD.decode: the text must consist of alphabet
\* characters in groups of four, '=' padding only at the end.  The symbolic
\* text of a signature decodes to that signature's bytes; with anything
\* before or after it the text no longer decodes to a signature.
base64_decode(text) ==
    LET n == Len(text)
        pad == IF n >= 2 /\ text[n] = Ch("=") /\ text[n - 1] = Ch("=") THEN 2
               ELSE IF n >= 1 /\ text[n] = Ch("=") THEN 1 ELSE 0
    IN  IF n = 1 /\ text[1].sig # <<>>
        THEN Ok([len |-> IF key_type(text[1].sig[1]) = "Ed25519" THEN 64 ELSE 71,
                 sig |-> text[1].sig])
        ELSE IF /\ n % 4 = 0
                /\ \A i \in 1..(n - pad) :
                       text[i].sig = <<>> /\ text[i].ch \in Base64Alphabet
        THEN Ok([len |-> 3 * (n \div 4) - pad, sig |-> <<>>])
        ELSE Err("InvalidInput", "Invalid base64 signature")

\* SignatureAlgorithm::identifier
algorithm_identifier(a) ==
    CASE a = "Ed25519" -> S(<<"e","d","2","5","5","1","9">>)
      [] a = "EcdsaP256Sha256" ->
            S(<<"e","c","d","s","a","-","p","2","5","6","-","s","h","a","2","5","6">>)
      [] a = "EcdsaSecp256k1Sha256" ->
            S(<<"e","c","d","s","a","-","s","e","c","p","2","5","6","k","1","-",
                "s","h","a","2","5","6">>)

----------------------------------------------------------------------------
(* Signature parameters (rfc9421/components.rs) *)

\* SignatureParams::default()
DefaultParams ==
    [key_id |-> NoneStr, alg |-> NoneStr, created |-> NoneInt,
     expires |-> NoneInt, nonce |-> NoneStr, tag |-> NoneStr]

KEYID_EQ == S(<<"k","e","y","i","d","=">>)
ALG_EQ == S(<<"a","l","g","=">>)
CREATED_EQ == S(<<"c","r","e","a","t","e","d","=">>)
EXPIRES_EQ == S(<<"e","x","p","i","r","e","s","=">>)
NONCE_EQ == S(<<"n","o","n","c","e","=">>)
TAG_EQ == S(<<"t","a","g","=">>)

Quoted(v) == <<QUOTE>> \o v \o <<QUOTE>>

\* a variant of params_to_string that writes tag in front of nonce
params_to_string_tag_first(p) ==
    LET params ==
            (IF p.key_id.some THEN <<KEYID_EQ \o Quoted(p.key_id.v)>> ELSE <<>>)
         \o (IF p.alg.some THEN <<ALG_EQ \o Quoted(p.alg.v)>> ELSE <<>>)
         \o (IF p.created.some THEN <<CREATED_EQ \o ToDec(p.created.v)>> ELSE <<>>)
         \o (IF p.expires.some THEN <<EXPIRES_EQ \o ToDec(p.expires.v)>> ELSE <<>>)
         \o (IF p.tag.some THEN <<TAG_EQ \o Quoted(p.tag.v)>> ELSE <<>>)
         \o (IF p.nonce.some THEN <<NONCE_EQ \o Quoted(p.nonce.v)>> ELSE <<>>)
    IN  Join(params, <<Ch(";")>>)

\* impl Display for SignatureParams
params_to_string(p) ==
    LET params ==
            (IF p.key_id.some THEN <<KEYID_EQ \o Quoted(p.key_id.v)>> ELSE <<>>)
         \o (IF p.alg.some THEN <<ALG_EQ \o Quoted(p.alg.v)>> ELSE <<>>)
         \o (IF p.created.some THEN <<CREATED_EQ \o ToDec(p.created.v)>> ELSE <<>>)
         \o (IF p.expires.some THEN <<EXPIRES_EQ \o ToDec(p.expires.v)>> ELSE <<>>)
         \o (IF p.nonce.some THEN <<NONCE_EQ \o Quoted(p.nonce.v)>> ELSE <<>>)
         \o (IF p.tag.some THEN <<TAG_EQ \o Quoted(p.tag.v)>> ELSE <<>>)
    IN  Join(params, <<Ch(";")>>)

----------------------------------------------------------------------------
(* Signer (rfc9421/signer.rs) *)

SkewSeconds == 300

\* HttpSigner::new: the default component list
DefaultComponents == <<Method, Path, Authority>>

\* a variant of build_signature_params that adds a nonce
build_signature_params_with_nonce(k, now) ==
    LET alg == IF key_type(k) = "Ed25519" THEN "Ed25519" ELSE "EcdsaP256Sha256"
    IN  [key_id |-> Some(key_id(k)),
         alg |-> Some(algorithm_identifier(alg)),
         created |-> Some(now),
         expires |-> Some(now + SkewSeconds),
         nonce |-> Some(ToDec(now)),
         tag |-> NoneStr]

\* a variant of build_signature_params that stamps the minute of the clock
\* reading
build_signature_params_by_minute(k, now) ==
    LET alg == IF key_type(k) = "Ed25519" THEN "Ed25519" ELSE "EcdsaP256Sha256"
    IN  [key_id |-> Some(key_id(k)),
         alg |-> Some(algorithm_identifier(alg)),
         created |-> Some(now - (now % 60)),
         expires |-> Some(now - (now % 60) + SkewSeconds),
         nonce |-> NoneStr,
         tag |-> NoneStr]

\* a variant of build_signature_params that writes no expires
build_signature_params_no_expiry(k, now) ==
    LET alg == IF key_type(k) = "Ed25519" THEN "Ed25519" ELSE "EcdsaP256Sha256"
    IN  [key_id |-> Some(key_id(k)),
         alg |-> Some(algorithm_identifier(alg)),
         created |-> Some(now),
         expires |-> NoneInt,
         nonce |-> NoneStr,
         tag |-> NoneStr]

\* HttpSigner::build_signature_params, with the clock reading now; the key
\* id is that of the public key of the key pair
build_signature_params(k, now) ==
    LET alg == IF key_type(k) = "Ed25519" THEN "Ed25519" ELSE "EcdsaP256Sha256"
    IN  [key_id |-> Some(key_id(k)),
         alg |-> Some(algorithm_identifier(alg)),
         created |-> Some(now),
         expires |-> Some(now + SkewSeconds),
         nonce |-> NoneStr,
         tag |-> NoneStr]

\* HttpSigner::build_signature_input
build_signature_input(components, params) ==
    LET component_ids == [i \in 1..Len(components) |->
                             Quoted(identifier(components[i]))]
    IN  <<Ch("(")>> \o Join(component_ids, <<Ch(" ")>>) \o <<Ch(")")>>
            \o params_to_string(params)

SIG1_EQ == S(<<"s","i","g","1","=">>)
SIG1_EQ_COLON == S(<<"s","i","g","1","=",":">>)

\* the body shared by sign_request and sign_response once the component
\* list is chosen: the signed message, or the error and no message
sign_message(k, components, message, now) ==
    Let(build_signature_params(k, now), LAMBDA signature_params :
    Try(canonicalize(message, components), LAMBDA canonical_values :
    Let(build_signature_input(components, signature_params), LAMBDA sig_input :
    Let(build_signature_base(canonical_values, sig_input), LAMBDA signature_base :
    Let(keypair_sign(k, signature_base), LAMBDA signature :
    Let(base64_encode(signature_to_bytes(signature)), LAMBDA sig_value :
        IF ~IsValidHeaderValue(SIG1_EQ \o sig_input)
        THEN Err("InvalidInput", "Invalid signature input")
        ELSE IF ~IsValidHeaderValue(SIG1_EQ_COLON \o sig_value)
        THEN Err("InvalidInput", "Invalid signature value")
        ELSE Ok([message EXCEPT !.headers =
                    header_insert(
                        header_insert(@, SIGNATURE_INPUT, SIG1_EQ \o sig_input),
                        SIGNATURE, SIG1_EQ_COLON \o sig_value)])))))))

\* HttpSigner::sign_request: signs the configured component list
sign_request(signer, request, now) ==
    sign_message(signer.keypair, signer.default_components, request, now)

\* HttpSigner::sign_response: signs [Status, Header("content-type")]
sign_response(signer, response, now) ==
    sign_message(signer.keypair, <<Status, Header(CONTENT_TYPE)>>, response, now)

----------------------------------------------------------------------------
(* Verifier (rfc9421/verifier.rs) *)

\* a variant of extract_signature_headers that strips whatever label the
\* Signature-Input carries
extract_signature_headers_any_label(headers) ==
    Let(header_get(headers, SIGNATURE), LAMBDA sig_header :
    Let(header_get(headers, SIGNATURE_INPUT), LAMBDA sig_input_header :
        IF ~sig_header.some
        THEN Err("InvalidInput", "Missing signature header")
        ELSE IF ~IsVisibleAscii(sig_header.v)
        THEN Err("InvalidInput", "Invalid signature header encoding")
        ELSE IF ~sig_input_header.some
        THEN Err("InvalidInput", "Missing signature-input header")
        ELSE IF ~IsVisibleAscii(sig_input_header.v)
        THEN Err("InvalidInput", "Invalid signature-input header encoding")
        ELSE IF ~StartsWith(sig_header.v, SIG1_EQ_COLON)
        THEN Err("InvalidInput", "Invalid signature header format")
        ELSE Ok([sig_value |-> From(sig_header.v, Len(SIG1_EQ_COLON)),
                 sig_input |-> From(sig_input_header.v, Len(SIG1_EQ))])))

\* extract_signature_headers: (sig_value, sig_input) with the sig1 label
\* stripped
extract_signature_headers(headers) ==
    Let(header_get(headers, SIGNATURE), LAMBDA sig_header :
    Let(header_get(headers, SIGNATURE_INPUT), LAMBDA sig_input_header :
        IF ~sig_header.some
        THEN Err("InvalidInput", "Missing signature header")
        ELSE IF ~IsVisibleAscii(sig_header.v)
        THEN Err("InvalidInput", "Invalid signature header encoding")
        ELSE IF ~sig_input_header.some
        THEN Err("InvalidInput", "Missing signature-input header")
        ELSE IF ~IsVisibleAscii(sig_input_header.v)
        THEN Err("InvalidInput", "Invalid signature-input header encoding")
        ELSE IF ~StartsWith(sig_header.v, SIG1_EQ_COLON)
        THEN Err("InvalidInput", "Invalid signature header format")
        ELSE IF ~StartsWith(sig_input_header.v, SIG1_EQ)
        THEN Err("InvalidInput", "Invalid signature-input header format")
        ELSE Ok([sig_value |-> From(sig_header.v, Len(SIG1_EQ_COLON)),
                 sig_input |-> From(sig_input_header.v, Len(SIG1_EQ))])))

\* a variant of parse_component that takes an unknown @-token for a header
parse_component_unknown_as_header(s) ==
    LET component_id == TrimMatches(s, QUOTE)
        known == {c \in {Method, TargetUri, Authority, Scheme, RequestTarget,
                         Path, Query, Status} : identifier(c) = component_id}
    IN  IF known # {} THEN Ok(CHOOSE c \in known : TRUE)
        ELSE Ok(Header(component_id))

\* the closure of parse_signature_input that maps one token to a component
parse_component(s) ==
    LET component_id == TrimMatches(s, QUOTE)
        known == {c \in {Method, TargetUri, Authority, Scheme, RequestTarget,
                         Path, Query, Status} : identifier(c) = component_id}
    IN  IF known # {} THEN Ok(CHOOSE c \in known : TRUE)
        ELSE IF StartsWith(component_id, <<AT>>)
        THEN Err("Unsupported", "Unsupported derived component")
        ELSE Ok(Header(component_id))

RECURSIVE parse_components(_)
\* the collect() of the mapped tokens: the first error ends it
parse_components(tokens) ==
    IF tokens = <<>> THEN Ok(<<>>)
    ELSE Try(parse_components(SubSeq(tokens, 1, Len(tokens) - 1)),
             LAMBDA components :
                 Try(parse_component(tokens[Len(tokens)]),
                     LAMBDA component : Ok(Append(components, component))))

\* one iteration of the parameter loop of parse_signature_input.  The slices
\* param[7..] and param[5..] start one byte after the '=' and abort the call
\* (panic) when the parameter is shorter than that.
parse_param(params, raw) ==
    LET param == Trim(raw)
    IN  IF StartsWith(param, KEYID_EQ)
        THEN IF Len(param) < 7 THEN Err("Panic", "byte index 7 is out of bounds")
             ELSE Ok([params EXCEPT
                         !.key_id = Some(TrimMatches(From(param, 7), QUOTE))])
        ELSE IF StartsWith(param, ALG_EQ)
        THEN IF Len(param) < 5 THEN Err("Panic", "byte index 5 is out of bounds")
             ELSE Ok([params EXCEPT
                         !.alg = Some(TrimMatches(From(param, 5), QUOTE))])
        ELSE IF StartsWith(param, CREATED_EQ)
        THEN Ok([params EXCEPT !.created = ParseI64(From(param, 8))])
        ELSE IF StartsWith(param, EXPIRES_EQ)
        THEN Ok([params EXCEPT !.expires = ParseI64(From(param, 8))])
        ELSE Ok(params)

RECURSIVE parse_params(_)
\* the parameter loop, over the pieces of params_str.split(';')
parse_params(pieces) ==
    IF pieces = <<>> THEN Ok(DefaultParams)
    ELSE Try(parse_params(SubSeq(pieces, 1, Len(pieces) - 1)),
             LAMBDA params : parse_param(params, pieces[Len(pieces)]))

\* parse_signature_input
parse_signature_input(input) ==
    Let(IndexOf(input, Ch(")")), LAMBDA close :
        IF close = 0 THEN Err("InvalidInput", "Invalid signature input format")
        ELSE
    Try(parse_components(SplitWhitespace(
            TrimStartMatches(SubSeq(input, 1, close - 1), Ch("(")))),
        LAMBDA components :
    Try(parse_params(Split(SubSeq(input, close + 1, Len(input)), Ch(";"))),
        LAMBDA params :
            Ok([components |-> components, params |-> params]))))

\* a variant of verify_signature_params that rejects created = now + 300
verify_signature_params_exclusive(params, public_key, now_created, now_expires) ==
    IF params.created.some /\ params.created.v >= now_created + SkewSeconds
    THEN Err("Verification", "Signature created in the future")
    ELSE IF params.expires.some /\ params.expires.v < now_expires
    THEN Err("Verification", "Signature expired")
    ELSE IF params.key_id.some /\ params.key_id.v # key_id(public_key)
    THEN Err("Verification", "Key ID mismatch")
    ELSE Ok(<<>>)

\* a variant of verify_signature_params without the key-id check
verify_signature_params_any_key(params, public_key, now_created, now_expires) ==
    IF params.created.some /\ params.created.v > now_created + SkewSeconds
    THEN Err("Verification", "Signature created in the future")
    ELSE IF params.expires.some /\ params.expires.v < now_expires
    THEN Err("Verification", "Signature expired")
    ELSE Ok(<<>>)

\* verify_signature_params; now_created and now_expires are the two
\* readings of SystemTime::now the function takes
verify_signature_params(params, public_key, now_created, now_expires) ==
    IF params.created.some /\ params.created.v > now_created + SkewSeconds
    THEN Err("Verification", "Signature created in the future")
    ELSE IF params.expires.some /\ params.expires.v < now_expires
    THEN Err("Verification", "Signature expired")
    ELSE IF params.key_id.some /\ params.key_id.v # key_id(public_key)
    THEN Err("Verification", "Key ID mismatch")
    ELSE Ok(<<>>)

\* the match on self.public_key of verify_request / verify_response: the
\* Signature the decoded bytes are read as.  raw_ok says whether 64 bytes
\* that are not DER happen to be a valid raw r||s pair of scalars.
decode_signature(public_key, signature_bytes, raw_ok) ==
    LET from == IF signature_bytes.sig = <<>> THEN "none"
                ELSE key_type(signature_bytes.sig[1])
        as_signature ==
            [alg |-> key_type(public_key),
             key |-> IF signature_bytes.sig = <<>> THEN "none"
                     ELSE signature_bytes.sig[1],
             base |-> IF signature_bytes.sig = <<>> THEN <<>>
                      ELSE signature_bytes.sig[2]]
    IN  IF key_type(public_key) = "Ed25519"
        THEN IF signature_bytes.len # 64
             THEN Err("InvalidInput", "Ed25519 signature must be 64 bytes")
             ELSE Ok(as_signature)
        ELSE IF from = "Secp256k1" THEN Ok(as_signature)
        ELSE IF signature_bytes.len = 64
        THEN IF raw_ok THEN Ok(as_signature)
             ELSE Err("InvalidInput", "Invalid ECDSA signature")
        ELSE Err("InvalidInput", "Invalid Secp256k1 signature format")

\* a variant of received_params_line that serializes the parsed value again
received_params_line_reserialized(sig_input, parsed) ==
    build_signature_input(parsed.components, parsed.params)

\* the params line the verifier hands to build_signature_base: the
\* sig_input string of extract_signature_headers, not the parsed value
received_params_line(sig_input, parsed) == sig_input

\* what a verification call leaves behind: its result, the step that
\* returned, and the values it computed on the way
Outcome(r, step, input, parsed, base) ==
    [kind |-> r.kind, text |-> r.text, step |-> step,
     sig_input |-> input, parsed |-> parsed, base |-> base]

NoParsed == [components |-> <<>>, params |-> DefaultParams]

\* one step of a verification call: its value is passed on, its error is
\* what the call returns
Step(r, step, input, parsed, base, K(_)) ==
    IF r.ok THEN K(r.v) ELSE Outcome(r, step, input, parsed, base)

\* the body shared by verify_request and verify_response
verify_message(public_key, message, now_created, now_expires, raw_ok) ==
    Step(extract_signature_headers(message.headers),
         "extract", <<>>, NoParsed, <<>>, LAMBDA extracted :
    Step(parse_signature_input(extracted.sig_input),
         "parse", extracted.sig_input, NoParsed, <<>>, LAMBDA parsed :
    Step(verify_signature_params(parsed.params, public_key,
                                 now_created, now_expires),
         "params", extracted.sig_input, parsed, <<>>, LAMBDA checked :
    Step(canonicalize(message, parsed.components),
         "canonicalize", extracted.sig_input, parsed, <<>>,
         LAMBDA canonical_values :
    Let(build_signature_base(
            canonical_values,
            received_params_line(extracted.sig_input, parsed)),
        LAMBDA signature_base :
    Step(base64_decode(extracted.sig_value),
         "base64", extracted.sig_input, parsed, signature_base,
         LAMBDA signature_bytes :
    Step(decode_signature(public_key, signature_bytes, raw_ok),
         "decode", extracted.sig_input, parsed, signature_base,
         LAMBDA signature :
    Outcome(publickey_verify(public_key, signature_base, signature),
            "verify", extracted.sig_input, parsed, signature_base))))))))

\* HttpVerifier::verify_request
verify_request(public_key, request, now_created, now_expires, raw_ok) ==
    verify_message(public_key, request, now_created, now_expires, raw_ok)

\* HttpVerifier::verify_response
verify_response(public_key, response, now_created, now_expires, raw_ok) ==
    verify_message(public_key, response, now_created, now_expires, raw_ok)

----------------------------------------------------------------------------
(* Direct calls of the canonicalizer (a library entry point of its own) *)

NoCanonIn == [called |-> FALSE, message |-> RespBare, components |-> <<>>]
NoCanonOut == [res |-> Err("", ""), built |-> FALSE, params |-> <<>>, base |-> <<>>]

\* canonicalize_request(&request, &components)
CanonicalizeRequest ==
    \E m \in CanonMessages, cs \in ComponentLists :
        /\ ~canonIn.called
        /\ m.kind = "request"
        /\ canonIn' = [called |-> TRUE, message |-> m, components |-> cs]
        /\ canonOut' = [NoCanonOut EXCEPT !.res = canonicalize_request(m, cs)]
        /\ UNCHANGED <<clock, msg, sgn, vres, nsign, ntamper, par, kps, cry>>

\* canonicalize_response(&response, &components)
CanonicalizeResponse ==
    \E m \in CanonMessages, cs \in ComponentLists :
        /\ ~canonIn.called
        /\ m.kind = "response"
        /\ canonIn' = [called |-> TRUE, message |-> m, components |-> cs]
        /\ canonOut' = [NoCanonOut EXCEPT !.res = canonicalize_response(m, cs)]
        /\ UNCHANGED <<clock, msg, sgn, vres, nsign, ntamper, par, kps, cry>>

\* build_signature_base(&canonical_values, params_line) on the pairs the
\* canonicalizer returned
BuildSignatureBase ==
    \E p \in ParamsLines :
        /\ canonIn.called /\ canonOut.res.ok /\ ~canonOut.built
        /\ canonOut' = [canonOut EXCEPT !.built = TRUE, !.params = p,
                            !.base = build_signature_base(canonOut.res.v, p)]
        /\ UNCHANGED <<clock, msg, sgn, vres, nsign, ntamper, canonIn, par, kps, cry>>

----------------------------------------------------------------------------
(* Serializing and parsing SignatureParams values *)

\* the SignatureParams values handed to the serialization: every field
\* present or absent, the integers negative, zero and at the ends of the
\* range of the model's integers
ParamsInputs ==
    [key_id : {NoneStr, Some(S(<<"k","-","1">>))},
     alg : {NoneStr, Some(S(<<"e","d","2","5","5","1","9">>))},
     created : {NoneInt, Some(-2147483647), Some(T0)},
     expires : {NoneInt, Some(0), Some(2147483647)},
     nonce : {NoneStr, Some(S(<<"n","0">>))},
     tag : {NoneStr, Some(S(<<"a","p","p">>))}]

NoPar ==
    [called |-> FALSE, params |-> DefaultParams, line |-> <<>>,
     parsed |-> FALSE, res |-> Err("", "")]

\* params.to_string()
SerializeParams ==
    \E p \in ParamsInputs :
        /\ ~par.called
        /\ par' = [NoPar EXCEPT !.called = TRUE, !.params = p,
                                !.line = params_to_string(p)]
        /\ UNCHANGED <<clock, msg, sgn, vres, nsign, ntamper, canonIn,
                       canonOut, kps, cry>>

\* parse_signature_input on the Signature-Input line the signer builds from
\* these params for the component list ["@method"]
ParseSerialized ==
    /\ par.called /\ ~par.parsed
    /\ par' = [par EXCEPT !.parsed = TRUE,
                          !.res = parse_signature_input(
                                      build_signature_input(<<Method>>, par.params))]
    /\ UNCHANGED <<clock, msg, sgn, vres, nsign, ntamper, canonIn,
                   canonOut, kps, cry>>

----------------------------------------------------------------------------
(* Key pair construction (crypto/keys.rs) *)

\* PrivateKey: the key type and the 32 bytes, which the model names
PrivateKey(t, id) == [t |-> t, bytes |-> id]

\* the private keys of the model; the all-zero bytes are no secp256k1 scalar
PrivateKeys ==
    {PrivateKey("Ed25519", "a"), PrivateKey("Ed25519", "c"),
     PrivateKey("Ed25519", "zero"),
     PrivateKey("Secp256k1", "a"), PrivateKey("Secp256k1", "c")}

\* the public key of a private key (ed25519_dalek / k256), not computed
private_public_key(private_key) ==
    CASE private_key = PrivateKey("Ed25519", "a") -> "KA"
      [] private_key = PrivateKey("Ed25519", "c") -> "KB"
      [] private_key = PrivateKey("Ed25519", "zero") -> "KD"
      [] private_key = PrivateKey("Secp256k1", "a") -> "KE"
      [] private_key = PrivateKey("Secp256k1", "c") -> "KC"

\* the byte strings handed to from_private_key_bytes
KeyBytes ==
    {[len |-> 32, id |-> "a"], [len |-> 32, id |-> "c"],
     [len |-> 32, id |-> "zero"], [len |-> 31, id |-> "a"]}

\* KeyPair::from_parts
from_parts(private_key, public_key) ==
    [private_key |-> private_key, public_key |-> public_key,
     key_id |-> generate_key_id(public_key)]

\* KeyPair::generate, with the private key the random generator produced
generate(kt, private_key) ==
    Ok([private_key |-> private_key,
        public_key |-> private_public_key(private_key),
        key_id |-> generate_key_id(private_public_key(private_key))])

\* KeyPair::from_private_key_bytes
from_private_key_bytes(kt, bytes) ==
    IF bytes.len # 32
    THEN Err("InvalidInput", "private key must be 32 bytes")
    ELSE IF kt = "Secp256k1" /\ bytes.id = "zero"
    THEN Err("CryptoError", "Invalid Secp256k1 private key")
    ELSE Ok(from_parts(PrivateKey(kt, bytes.id),
                       private_public_key(PrivateKey(kt, bytes.id))))

\* KeyPair::key_id
keypair_key_id(keypair) == keypair.key_id

\* KeyPair::public_key
keypair_public_key(keypair) == keypair.public_key

Constructed(ctor, res) ==
    /\ Len(kps) < MaxKeyPairs
    /\ kps' = Append(kps, [ctor |-> ctor, res |-> res])
    /\ UNCHANGED <<clock, msg, sgn, vres, nsign, ntamper, canonIn, canonOut,
                   par, cry>>

\* KeyPair::generate(kt)
Generate ==
    \E private_key \in PrivateKeys :
        Constructed("generate", generate(private_key.t, private_key))

\* KeyPair::from_private_key_bytes(kt, bytes)
FromPrivateKeyBytes ==
    \E kt \in {"Ed25519", "Secp256k1"}, bytes \in KeyBytes :
        Constructed("from_private_key_bytes", from_private_key_bytes(kt, bytes))

\* KeyPair::from_parts(private_key, public_key), as the importers call it
FromParts ==
    \E private_key \in PrivateKeys, public_key \in PublicKeys :
        Constructed("from_parts", Ok(from_parts(private_key, public_key)))

----------------------------------------------------------------------------
(* Direct calls of the key primitives (crypto/keys.rs) *)

\* the byte strings handed to PublicKey::from_bytes: their length, their
\* leading byte and a name for their content
PublicKeyBytes ==
    {[len |-> 32, lead |-> 171, id |-> "a"], [len |-> 32, lead |-> 2, id |-> "x"],
     [len |-> 33, lead |-> 2, id |-> "c"], [len |-> 33, lead |-> 3, id |-> "e"],
     [len |-> 33, lead |-> 5, id |-> "y"], [len |-> 33, lead |-> 2, id |-> "z"],
     [len |-> 31, lead |-> 2, id |-> "a"], [len |-> 64, lead |-> 3, id |-> "c"],
     [len |-> 0, lead |-> 0, id |-> "none"]}

\* the PublicKey value that holds the given bytes
public_key_of_bytes(kt, bytes) ==
    IF kt = "Ed25519"
    THEN (IF bytes.id = "a" THEN "KA" ELSE "KX")
    ELSE (CASE bytes.id = "c" -> "KC"
            [] bytes.id = "e" -> "KE"
            [] bytes.id = "y" -> "KY"
            [] OTHER -> "KZ")

\* PublicKey::from_bytes: the length is compared, the bytes are copied
public_key_from_bytes(kt, bytes) ==
    IF kt = "Ed25519"
    THEN IF bytes.len # 32
         THEN Err("InvalidInput", "Ed25519 public key must be 32 bytes")
         ELSE Ok(public_key_of_bytes(kt, bytes))
    ELSE IF bytes.len # 33
         THEN Err("InvalidInput",
                  "Secp256k1 public key must be 33 bytes (compressed)")
         ELSE Ok(public_key_of_bytes(kt, bytes))

\* the messages handed to sign and verify
CryptoMessages == {S(<<"m">>), S(<<"n">>), <<>>}

NoCry ==
    [op |-> "", key_type |-> "Ed25519", bytes |-> [len |-> 0, lead |-> 0, id |-> "none"],
     key |-> "KA", message |-> <<>>, signature |-> keypair_sign("KA", <<>>),
     res |-> Err("", "")]

\* PublicKey::from_bytes(kt, bytes)
FromBytes ==
    \E kt \in {"Ed25519", "Secp256k1"}, bytes \in PublicKeyBytes :
        /\ cry' = [NoCry EXCEPT !.op = "from_bytes", !.key_type = kt,
                                !.bytes = bytes,
                                !.res = public_key_from_bytes(kt, bytes)]
        /\ UNCHANGED <<clock, msg, sgn, vres, nsign, ntamper, canonIn,
                       canonOut, par, kps>>

\* public_key.verify(message, &signature), the signature being one that a
\* key pair of the model made over some message
Verify ==
    \E k \in PublicKeys \cup InvalidPublicKeys, signer \in Keys,
       signed \in CryptoMessages, message \in CryptoMessages :
        /\ cry' = [NoCry EXCEPT !.op = "verify", !.key = k,
                                !.message = message,
                                !.signature = keypair_sign(signer, signed),
                                !.res = publickey_verify(k, message,
                                            keypair_sign(signer, signed))]
        /\ UNCHANGED <<clock, msg, sgn, vres, nsign, ntamper, canonIn,
                       canonOut, par, kps>>

----------------------------------------------------------------------------
(* The signer, the network and the verifier *)

SignerKeys == {"KA", "KC"}

\* the component lists a signer is configured with (with_default_components)
SignerConfigs ==
    {DefaultComponents,
     <<Path, Method>>,
     <<Header(S(<<"C","o","n","t","e","n","t","-","T","y","p","e">>)), Query>>,
     <<Header(SIGNATURE), Method>>}

\* the clock readings of a verifier that receives a message signed at T0,
\* around the validity window of its signature
VerifierNows ==
    {T0 - SkewSeconds - 1, T0 - SkewSeconds, T0 + SkewSeconds,
     T0 + SkewSeconds + 1}

\* no successful sign call was made before
NoPrev ==
    [ok |-> FALSE, keypair |-> "KA", config |-> <<>>, now |-> 0,
     input |-> RespBare, output |-> RespBare]

\* the last successful sign call, as the call after it finds it: msg is
\* the message it returned
Previous ==
    IF sgn.ok /\ ntamper = 0
    THEN [ok |-> TRUE, keypair |-> sgn.keypair, config |-> sgn.config,
          now |-> sgn.now, input |-> sgn.input, output |-> msg]
    ELSE sgn.prev

NoSign ==
    [called |-> FALSE, ok |-> FALSE, kind |-> "", text |-> "",
     keypair |-> "KA", config |-> <<>>, components |-> <<>>, now |-> 0,
     input |-> RespBare, earlier |-> {}, prev |-> NoPrev]

NoVerify ==
    [called |-> FALSE, public_key |-> "KA", now_created |-> 0,
     now_expires |-> 0, out |-> Outcome(Err("", ""), "", <<>>, NoParsed, <<>>)]

Init ==
    /\ clock = T0
    /\ msg \in Messages
    /\ sgn = NoSign
    /\ vres = NoVerify
    /\ nsign = 0
    /\ ntamper = 0
    /\ canonIn = NoCanonIn
    /\ canonOut = NoCanonOut
    /\ par = NoPar
    /\ kps = <<>>
    /\ cry = NoCry

\* a variant of Signed in which a failing call leaves the first of the two
\* headers written
Signed_partial(k, cfg, cs, r) ==
    /\ sgn' = [called |-> TRUE, ok |-> r.ok, kind |-> r.kind, text |-> r.text,
               keypair |-> k, config |-> cfg, components |-> cs,
               now |-> clock, input |-> msg,
               earlier |-> IF sgn.ok THEN sgn.earlier \cup {sgn.keypair}
                           ELSE sgn.earlier,
               prev |-> Previous]
    /\ msg' = IF r.ok THEN r.v
              ELSE [msg EXCEPT !.headers =
                       header_insert(@, SIGNATURE_INPUT, SIG1_EQ \o S(<<"(",")">>))]
    /\ nsign' = nsign + 1
    /\ UNCHANGED <<clock, vres, ntamper, canonIn, canonOut, par, kps, cry>>

\* a sign call: on success the message carries the two signature headers,
\* on failure the caller is left with the error.  cfg is the component list
\* the signer is configured with, cs the list a call of this kind signs on
\* a message of this direction; earlier holds the key pairs of the
\* successful calls before this one, prev the last of those calls.
Signed(k, cfg, cs, r) ==
    /\ sgn' = [called |-> TRUE, ok |-> r.ok, kind |-> r.kind, text |-> r.text,
               keypair |-> k, config |-> cfg, components |-> cs,
               now |-> clock, input |-> msg,
               earlier |-> IF sgn.ok THEN sgn.earlier \cup {sgn.keypair}
                           ELSE sgn.earlier,
               prev |-> Previous]
    /\ msg' = IF r.ok THEN r.v ELSE msg
    /\ nsign' = nsign + 1
    /\ UNCHANGED <<clock, vres, ntamper, canonIn, canonOut, par, kps, cry>>

\* HttpSigner::new(k).with_default_components(cs).sign_request(msg)
SignRequest ==
    \E k \in SignerKeys, cs \in SignerConfigs :
        /\ ~vres.called /\ ntamper = 0 /\ nsign < MaxSigns
        /\ msg.kind = "request"
        /\ Signed(k, cs, cs, sign_request([keypair |-> k, default_components |-> cs],
                                      msg, clock))

ResponseComponents == <<Status, Header(CONTENT_TYPE)>>

\* HttpSigner::new(k).with_default_components(cs).sign_response(msg)
SignResponse ==
    \E k \in SignerKeys, cs \in SignerConfigs :
        /\ ~vres.called /\ ntamper = 0 /\ nsign < MaxSigns
        /\ msg.kind = "response"
        /\ Signed(k, cs, ResponseComponents,
                  sign_response([keypair |-> k, default_components |-> cs],
                                msg, clock))

\* the signer's clock advances by a second between two of its calls
Tick ==
    /\ ~vres.called /\ sgn.called /\ clock < T0 + MaxTicks
    /\ clock' = clock + 1
    /\ UNCHANGED <<msg, sgn, vres, nsign, ntamper, canonIn, canonOut, par, kps,
                   cry>>

\* the signer of the last successful call signs a message identical to the
\* one that call was given (the caller builds the same message again)
SignAgain ==
    LET signer == [keypair |-> sgn.keypair, default_components |-> sgn.config]
        r == IF sgn.input.kind = "request"
             THEN sign_request(signer, sgn.input, clock)
             ELSE sign_response(signer, sgn.input, clock)
    IN  /\ ~vres.called /\ ntamper = 0 /\ nsign < MaxSigns
        /\ sgn.called /\ sgn.ok
        /\ sgn' = [sgn EXCEPT !.ok = r.ok, !.kind = r.kind, !.text = r.text,
                              !.now = clock,
                              !.earlier = @ \cup {sgn.keypair},
                              !.prev = Previous]
        /\ msg' = IF r.ok THEN r.v ELSE msg
        /\ nsign' = nsign + 1
        /\ UNCHANGED <<clock, vres, ntamper, canonIn, canonOut, par, kps, cry>>

\* the message is modified on its way to the verifier; the modifications are
\* those of a message that was signed at most once
Tampered(m) ==
    /\ ~vres.called /\ ntamper < MaxTamper /\ nsign <= 1
    /\ m # msg
    /\ msg' = m
    /\ ntamper' = ntamper + 1
    /\ UNCHANGED <<clock, sgn, vres, nsign, canonIn, canonOut, par, kps, cry>>

COMMA_SPACE == S(<<",", " ">>)

ZEROS == S(<<"0","0","0","0","0","0","0","0","0","0","0","0","0","0","0","0">>)

\* the Signature-Input the signer wrote, with a ';' between the component
\* list and the parameters (the RFC 8941 spelling of the same content)
Respelled(v) ==
    LET close == IndexOf(v, Ch(")"))
    IN  SubSeq(v, 1, close) \o <<Ch(";")>> \o SubSeq(v, close + 1, Len(v))

RespellSignatureInput ==
    LET cur == header_get(msg.headers, SIGNATURE_INPUT)
    IN  /\ sgn.ok /\ cur.some
        /\ Tampered([msg EXCEPT !.headers =
                header_insert(@, SIGNATURE_INPUT, Respelled(cur.v))])

\* the Signature-Input the signer wrote, with the keyid replaced
ReplaceKeyId ==
    /\ sgn.ok
    /\ Tampered([msg EXCEPT !.headers =
            header_insert(@, SIGNATURE_INPUT,
                SIG1_EQ \o build_signature_input(sgn.components,
                    [build_signature_params(sgn.keypair, sgn.now)
                        EXCEPT !.key_id = Some(ZEROS)]))])

\* Signature values that are not of the signer
ForgedSignatures ==
    {SIG1_EQ_COLON \o S(<<"A","A","A","A">>),
     SIG1_EQ_COLON \o S(<<"!","!","!","!">>)}

ReplaceSignature ==
    \E v \in ForgedSignatures :
        Tampered([msg EXCEPT !.headers = header_insert(@, SIGNATURE, v)])

\* the Signature the signer wrote, closed by the ':' of the RFC 8941
\* byte-sequence form
CloseSignature ==
    LET cur == header_get(msg.headers, SIGNATURE)
    IN  /\ sgn.ok /\ cur.some
        /\ Tampered([msg EXCEPT !.headers =
                header_insert(@, SIGNATURE, cur.v \o <<Ch(":")>>)])

SIG2 == S(<<"s","i","g","2">>)

\* the message with the label sig1 of its two signature headers replaced
Relabelled(m, label) ==
    LET si == header_get(m.headers, SIGNATURE_INPUT).v
        sg == header_get(m.headers, SIGNATURE).v
    IN  [m EXCEPT !.headers =
            header_insert(
                header_insert(@, SIGNATURE_INPUT,
                              label \o <<Ch("=")>> \o From(si, Len(SIG1_EQ))),
                SIGNATURE,
                label \o <<Ch("="), Ch(":")>> \o From(sg, Len(SIG1_EQ_COLON)))]

\* the message with a second dictionary member, labelled sig2, after the
\* sig1 member of its two signature headers
WithSibling(m) ==
    LET si == header_get(m.headers, SIGNATURE_INPUT).v
        sg == header_get(m.headers, SIGNATURE).v
    IN  [m EXCEPT !.headers =
            header_insert(
                header_insert(@, SIGNATURE_INPUT,
                              si \o COMMA_SPACE \o SIG2 \o S(<<"=","(",")">>)),
                SIGNATURE,
                sg \o COMMA_SPACE \o SIG2 \o S(<<"=",":","A","A","A","A",":">>))]

\* the signed message as another implementation labels it: sig2 for sig1
RelabelSignature ==
    /\ sgn.ok
    /\ StartsWith(header_get(msg.headers, SIGNATURE_INPUT).v, SIG1_EQ)
    /\ StartsWith(header_get(msg.headers, SIGNATURE).v, SIG1_EQ_COLON)
    /\ Tampered(Relabelled(msg, SIG2))

\* a second signature, labelled sig2, is added next to the one of the signer
AddSiblingSignature ==
    /\ sgn.ok
    /\ StartsWith(header_get(msg.headers, SIGNATURE_INPUT).v, SIG1_EQ)
    /\ StartsWith(header_get(msg.headers, SIGNATURE).v, SIG1_EQ_COLON)
    /\ Tampered(WithSibling(msg))

\* the signature of another key pair over the signature base of the message
ResignSignature ==
    LET cur == header_get(msg.headers, SIGNATURE)
    IN  /\ sgn.ok /\ cur.some
        /\ cur.v # <<>> /\ cur.v[Len(cur.v)].sig # <<>>
        /\ Tampered([msg EXCEPT !.headers =
                header_insert(@, SIGNATURE,
                    SIG1_EQ_COLON \o base64_encode(signature_to_bytes(
                        keypair_sign("KB", cur.v[Len(cur.v)].sig[2]))))])

RemoveHeader ==
    \E n \in {SIGNATURE, SIGNATURE_INPUT, CONTENT_TYPE} :
        Tampered([msg EXCEPT !.headers = SelectSeq(@, LAMBDA h : h.name # n)])

SetHeader ==
    \E h \in {Hdr(CONTENT_TYPE, S(<<"t","/","x">>)),
              Hdr(CONTENT_TYPE, <<Ch("t"), OBS>>),
              Hdr(S(<<"d","a","t","e">>), S(<<"t","/","x">>))} :
        Tampered([msg EXCEPT !.headers = header_insert(@, h.name, h.value)])

SetMethod ==
    /\ msg.kind = "request"
    /\ Tampered([msg EXCEPT !.method = S(<<"P","U","T">>)])

SetUri ==
    \E u \in {[msg.uri EXCEPT !.path = S(<<"/","x">>)],
              [msg.uri EXCEPT !.query = Some(S(<<"z">>))]} :
        /\ msg.kind = "request"
        /\ Tampered([msg EXCEPT !.uri = u])

SetStatus ==
    /\ msg.kind = "response"
    /\ Tampered([msg EXCEPT !.status = 500])

SetBody == Tampered([msg EXCEPT !.body = S(<<"y">>)])

Verified(k, nc, ne, out) ==
    /\ ~vres.called
    /\ vres' = [called |-> TRUE, public_key |-> k, now_created |-> nc,
                now_expires |-> ne, out |-> out]
    /\ UNCHANGED <<clock, msg, sgn, nsign, ntamper, canonIn, canonOut, par, kps, cry>>

\* whether 64 bytes that are not DER are a valid raw r||s pair is open only
\* for a secp256k1 verifier
RawChoices(k) == IF key_type(k) = "Secp256k1" THEN BOOLEAN ELSE {FALSE}

\* HttpVerifier::new(k).verify_request(&msg); the clock may tick between the
\* two readings the call takes
VerifyRequest ==
    \E k \in Keys, d \in {0, 1} :
        \E raw_ok \in RawChoices(k) :
            /\ msg.kind = "request"
            /\ Verified(k, clock, clock + d,
                        verify_request(k, msg, clock, clock + d, raw_ok))

\* HttpVerifier::new(k).verify_response(&msg)
VerifyResponse ==
    \E k \in Keys, d \in {0, 1} :
        \E raw_ok \in RawChoices(k) :
            /\ msg.kind = "response"
            /\ Verified(k, clock, clock + d,
                        verify_response(k, msg, clock, clock + d, raw_ok))

\* the clock readings of a verifier on another machine, around the
\* validity window of the signature the last sign call wrote
WindowNows ==
    {sgn.now - SkewSeconds - 1, sgn.now - SkewSeconds, sgn.now,
     sgn.now + SkewSeconds, sgn.now + SkewSeconds + 1}

\* verify_request(&msg) or verify_response(&msg) on a message that was
\* signed once, by the verifier of the signer's public key, whose clock
\* reads n and may tick between the two readings the call takes
VerifyAt ==
    \E n \in WindowNows, d \in {0, 1} :
        \E raw_ok \in RawChoices(sgn.keypair) :
            /\ sgn.called /\ nsign = 1
            /\ Verified(sgn.keypair, n, n + d,
                        IF msg.kind = "request"
                        THEN verify_request(sgn.keypair, msg, n, n + d, raw_ok)
                        ELSE verify_response(sgn.keypair, msg, n, n + d, raw_ok))

Next ==
    \/ SignRequest
    \/ SignResponse
    \/ RespellSignatureInput
    \/ ReplaceKeyId
    \/ ReplaceSignature
    \/ CloseSignature
    \/ ResignSignature
    \/ RelabelSignature
    \/ AddSiblingSignature
    \/ RemoveHeader
    \/ SetHeader
    \/ SetMethod
    \/ SetUri
    \/ SetStatus
    \/ SetBody
    \/ VerifyRequest
    \/ VerifyResponse

Spec == Init /\ [][Next]_vars

NextCanon ==
    \/ CanonicalizeRequest
    \/ CanonicalizeResponse
    \/ BuildSignatureBase

SpecCanon == Init /\ [][NextCanon]_vars

NextParams ==
    \/ SerializeParams
    \/ ParseSerialized

SpecParams == Init /\ [][NextParams]_vars

NextKeys ==
    \/ Generate
    \/ FromPrivateKeyBytes
    \/ FromParts

SpecKeys == Init /\ [][NextKeys]_vars

NextCrypto ==
    \/ FromBytes
    \/ Verify

NextTime ==
    \/ Tick
    \/ SignRequest
    \/ SignResponse
    \/ SignAgain
    \/ VerifyAt

SpecTime == Init /\ [][NextTime]_vars

SpecCrypto == Init /\ [][NextCrypto]_vars

----------------------------------------------------------------------------
(* Messages as they reach a verifier from arbitrary peers *)

ONE_METHOD == S(<<"(","\"","@","m","e","t","h","o","d","\"",")">>)

\* Signature-Input values of foreign implementations and attackers
ForgedSignatureInputs ==
    {S(<<"s","i","g","2","=">>) \o ONE_METHOD,
     S(<<"s","i","g","1","=","(","\"","@","m","e","t","h","o","d","\"">>),
     S(<<"s","i","g","1","=","(","\"","@","f","o","o","\"",")">>),
     SIG1_EQ \o S(<<"(","\"","@","s","t","a","t","u","s","\"",")">>)
         \o EXPIRES_EQ \o S(<<"1">>),
     SIG1_EQ \o S(<<"(",")">>) \o KEYID_EQ,
     SIG1_EQ \o ONE_METHOD \o EXPIRES_EQ \o S(<<"a","b","c">>),
     SIG1_EQ \o ONE_METHOD \o KEYID_EQ \o Quoted(ZEROS),
     SIG1_EQ \o ONE_METHOD,
     SIG1_EQ \o ONE_METHOD \o <<OBS>>,
     SIG1_EQ \o ONE_METHOD \o CREATED_EQ \o ToDec(T0),
     SIG1_EQ \o ONE_METHOD \o <<Ch(";")>> \o EXPIRES_EQ \o ToDec(T0 + SkewSeconds),
     SIG1_EQ \o ONE_METHOD \o CREATED_EQ \o S(<<"-","5">>)
         \o <<Ch(";")>> \o EXPIRES_EQ \o S(<<"+","5">>),
     SIG1_EQ \o ONE_METHOD \o KEYID_EQ \o Quoted(key_id("KA"))}

\* Signature values of foreign implementations and attackers
ForgedSignatureValues ==
    ForgedSignatures \cup
    {S(<<"s","i","g","2","=",":","A","A","A","A">>),
     SIG1_EQ_COLON \o <<OBS>>,
     SIG1_EQ_COLON}

\* tokens of a component list as peers write them: quoted, unquoted, quoted
\* twice, an unknown derived component, a derived component in upper case
\* and a header name that is not in lower case
Tokens ==
    {Quoted(AT_METHOD), Quoted(AT_STATUS), AT_PATH,
     Quoted(S(<<"@","f","o","o">>)), Quoted(S(<<"@","M","e","t","h","o","d">>)),
     Quoted(S(<<"X","-","T","a","g">>)), Quoted(Quoted(AT_QUERY))}

TokenLists == UNION {[1..n -> Tokens] : n \in 0..MaxComps}

\* a Signature-Input value that lists the tokens and has expired
TokenSignatureInput(tokens) ==
    SIG1_EQ \o <<Ch("(")>> \o Join(tokens, <<Ch(" ")>>) \o <<Ch(")")>>
        \o EXPIRES_EQ \o S(<<"1">>)

Keep == [op |-> "keep", v |-> <<>>]
Remove == [op |-> "remove", v |-> <<>>]
SetTo(v) == [op |-> "set", v |-> v]

Edited(headers, name, e) ==
    CASE e.op = "keep" -> headers
      [] e.op = "remove" -> SelectSeq(headers, LAMBDA h : h.name # name)
      [] e.op = "set" -> header_insert(headers, name, e.v)

\* a request signed by KA and a response signed by KC at T0
GenuineMessages ==
    {sign_request([keypair |-> "KA", default_components |-> DefaultComponents],
                  ReqFull, T0).v,
     sign_response([keypair |-> "KC", default_components |-> DefaultComponents],
                   RespFull, T0).v}

IncomingMessages ==
    {[m EXCEPT !.headers =
          Edited(Edited(@, SIGNATURE_INPUT, si), SIGNATURE, sg)] :
        m \in GenuineMessages,
        si \in {Keep, Remove} \cup {SetTo(v) : v \in ForgedSignatureInputs},
        sg \in {Keep, Remove} \cup {SetTo(v) : v \in ForgedSignatureValues}}
    \cup
    {[m EXCEPT !.headers =
          header_insert(@, SIGNATURE_INPUT, TokenSignatureInput(tokens))] :
        m \in GenuineMessages, tokens \in TokenLists}

InitVerify ==
    /\ clock \in VerifierNows
    /\ msg \in IncomingMessages
    /\ sgn = NoSign
    /\ vres = NoVerify
    /\ nsign = 0
    /\ ntamper = 0
    /\ canonIn = NoCanonIn
    /\ canonOut = NoCanonOut
    /\ par = NoPar
    /\ kps = <<>>
    /\ cry = NoCry

NextVerify ==
    \/ VerifyRequest
    \/ VerifyResponse

SpecVerify == InitVerify /\ [][NextVerify]_vars

----------------------------------------------------------------------------
(* Properties *)

Swap(seq, i, j) ==
    [k \in 1..Len(seq) |-> IF k = i THEN seq[j] ELSE IF k = j THEN seq[i] ELSE seq[k]]

\* the field values of the header fields whose name matches name
\* case-insensitively, in header order
MatchingValues(headers, name) ==
    LET sel == SelectSeq(headers,
                   LAMBDA h : to_lowercase(h.name) = to_lowercase(name))
    IN  [k \in 1..Len(sel) |-> sel[k].value]

COLON_SPACE == S(<<":", " ">>)

\* the verifier's call was made at a clock inside the validity window of
\* the signature the last sign call wrote
InWindow ==
    /\ sgn.now <= vres.now_created + 300
    /\ sgn.now + 300 >= vres.now_expires

\* the message carries the signature headers the last sign call wrote
SameSignatureHeaders ==
    LET signed == sign_message(sgn.keypair, sgn.components, sgn.input, sgn.now).v
    IN  /\ get_all(msg.headers, SIGNATURE) = get_all(signed.headers, SIGNATURE)
        /\ get_all(msg.headers, SIGNATURE_INPUT)
               = get_all(signed.headers, SIGNATURE_INPUT)

\* C1 (round trip): a message on which the sign call succeeded, handed
\* unmodified to the verifier of the signer's public key at a clock inside
\* the validity window, verifies.
C1_RoundTrip ==
    (/\ vres.called /\ sgn.ok /\ ntamper = 0
     /\ vres.public_key = sgn.keypair
     /\ InWindow) =>
        vres.out.kind = "Ok"

\* the verification got as far as the time policy
ParamsChecked == vres.called /\ vres.out.step \notin {"extract", "parse"}

CreatedInFuture ==
    LET p == vres.out.parsed.params
    IN  p.created.some /\ p.created.v > vres.now_created + 300

Expired ==
    LET p == vres.out.parsed.params
    IN  p.expires.some /\ p.expires.v < vres.now_expires

\* C2: a parsed created > now + 300 fails with Verification (created in the
\* future), otherwise a parsed expires < now fails with Verification
\* (expired); created = now + 300, expires = now and absent fields are not
\* failed by the time policy.
C2_TimePolicy ==
    ParamsChecked =>
        /\ CreatedInFuture =>
               /\ vres.out.kind = "Verification"
               /\ vres.out.text = "Signature created in the future"
        /\ (~CreatedInFuture /\ Expired) =>
               /\ vres.out.kind = "Verification"
               /\ vres.out.text = "Signature expired"
        /\ (~CreatedInFuture /\ ~Expired) =>
               vres.out.text \notin {"Signature created in the future",
                                     "Signature expired"}

\* a signature with created = now + 300 verified
C2_Witness ==
    /\ ParamsChecked
    /\ vres.out.parsed.params.created = Some(vres.now_created + 300)
    /\ vres.out.parsed.params.expires.some
    /\ vres.out.kind = "Ok"

\* C3: when both headers are read and the Signature-Input parses, a keyid
\* other than the verifier's key id fails with Verification("Key ID
\* mismatch") once the time policy passes, at the parameter check, whatever
\* the Signature value and the covered components are; a message whose keyid
\* is that of another key never verifies.
C3_KeyIdCheck ==
    ParamsChecked =>
        LET p == vres.out.parsed.params
        IN  /\ (/\ p.key_id.some
                /\ p.key_id.v # key_id(vres.public_key)
                /\ ~CreatedInFuture /\ ~Expired) =>
                   /\ vres.out.kind = "Verification"
                   /\ vres.out.text = "Key ID mismatch"
                   /\ vres.out.step = "params"
            /\ \A a \in Keys :
                   (a # vres.public_key /\ p.key_id = Some(key_id(a))) =>
                       vres.out.kind # "Ok"

\* a key id mismatch was reported on a message whose Signature value is not
\* base64
C3_Witness ==
    /\ vres.called
    /\ vres.out.text = "Key ID mismatch"
    /\ sgn.ok /\ vres.public_key # sgn.keypair
    /\ header_get(msg.headers, SIGNATURE)
           = Some(S(<<"s","i","g","1","=",":","!","!","!","!">>))

\* C4: a request that carries the signature headers of sign_request,
\* verified under the signer's public key inside the window, verifies if and
\* only if every covered component has the canonical value it had in the
\* request given to sign_request; a changed covered value that is still
\* extractable fails with Verification.
C4_Coverage ==
    (/\ vres.called /\ sgn.ok /\ msg.kind = "request"
     /\ SameSignatureHeaders
     /\ vres.public_key = sgn.keypair
     /\ InWindow) =>
        LET before == canonicalize_request(sgn.input, sgn.components)
            after == canonicalize_request(msg, sgn.components)
        IN  /\ vres.out.kind = "Ok" <=> (after.ok /\ after.v = before.v)
            /\ (after.ok /\ after.v # before.v) =>
                   vres.out.kind = "Verification"

\* the covered method was changed after signing and the verification failed
C4_Witness ==
    /\ vres.called /\ sgn.ok /\ msg.kind = "request"
    /\ SameSignatureHeaders
    /\ vres.public_key = sgn.keypair
    /\ InWindow
    /\ \E i \in 1..Len(sgn.components) : sgn.components[i] = Method
    /\ msg.method # sgn.input.method
    /\ vres.out.kind = "Verification"

\* spellings of a Signature-Input value that differ in bytes only
Spellings(v) == {v, Respelled(v), v \o <<Ch(";")>>}

\* C5: the last line of the signature base the verifier checks is
\* "@signature-params": followed by the received Signature-Input value
\* without its sig1= prefix, byte for byte; a value of other bytes that
\* parses to the same components and params gives another base.
C5_ReceivedBytes ==
    (vres.called /\ vres.out.step \in {"base64", "decode", "verify"}) =>
        LET received == header_get(msg.headers, SIGNATURE_INPUT).v
            v == SubSeq(received, 6, Len(received))
            lines == Split(vres.out.base, LF)
        IN  /\ lines[Len(lines)] = Quoted(SIGPARAMS) \o COLON_SPACE \o v
            /\ \A w \in Spellings(v) \ {v} :
                   LET other == verify_message(
                                    vres.public_key,
                                    [msg EXCEPT !.headers = header_insert(
                                        @, SIGNATURE_INPUT, SIG1_EQ \o w)],
                                    vres.now_created, vres.now_expires, FALSE)
                   IN  /\ other.parsed = vres.out.parsed
                       /\ other.base # vres.out.base

\* a Signature-Input respelled on the way was checked against the respelled
\* bytes
C5_Witness ==
    /\ vres.called /\ sgn.ok /\ ntamper = 1
    /\ vres.public_key = sgn.keypair
    /\ header_get(msg.headers, SIGNATURE_INPUT)
           = Some(SIG1_EQ \o Respelled(build_signature_input(
                      sgn.components,
                      build_signature_params(sgn.keypair, sgn.now))))
    /\ vres.out.step = "verify"
    /\ vres.out.kind = "Verification"

\* the signature headers cannot be read: one is missing, is not visible
\* ASCII or lacks the sig1 label, or the Signature-Input has no ')'
Unreadable(headers) ==
    LET sig == header_get(headers, SIGNATURE)
        input == header_get(headers, SIGNATURE_INPUT)
    IN  \/ ~sig.some
        \/ ~input.some
        \/ ~IsVisibleAscii(sig.v)
        \/ ~IsVisibleAscii(input.v)
        \/ ~StartsWith(sig.v, S(<<"s","i","g","1","=",":">>))
        \/ ~StartsWith(input.v, S(<<"s","i","g","1","=">>))
        \/ \A i \in 1..Len(input.v) : input.v[i] # Ch(")")

\* C10: verification of a message whose Signature or Signature-Input header
\* is missing or cannot be read fails with InvalidInput before any later
\* step, for every key, every clock reading and every rest of the message.
C10_UnreadableHeaders ==
    (vres.called /\ Unreadable(msg.headers)) =>
        /\ vres.out.kind = "InvalidInput"
        /\ vres.out.step \in {"extract", "parse"}

\* a Signature-Input without ')' was rejected when it was parsed
C10_Witness ==
    /\ vres.called
    /\ vres.out.step = "parse"
    /\ vres.out.kind = "InvalidInput"
    /\ Unreadable(msg.headers)

\* C6: the signature base has one line "<identifier>": <value> per canonical
\* pair, in the order of the pairs, then the line "@signature-params": p;
\* the lines are joined by single LF, there is no trailing newline, and
\* exchanging two distinct pairs changes the base.
C6_SignatureBaseAssembly ==
    canonOut.built =>
        LET pairs == canonOut.res.v
            n == Len(pairs)
            base == canonOut.base
            lines == Split(base, LF)
        IN  /\ Len(lines) = n + 1
            /\ \A i \in 1..n :
                   lines[i] = Quoted(pairs[i][1]) \o COLON_SPACE \o pairs[i][2]
            /\ lines[n + 1] = Quoted(SIGPARAMS) \o COLON_SPACE \o canonOut.params
            /\ base[Len(base)] # LF
            /\ \A i, j \in 1..n :
                   (i < j /\ pairs[i] # pairs[j]) =>
                       build_signature_base(Swap(pairs, i, j), canonOut.params)
                           # base

\* a base was built from two distinct canonical pairs
C6_Witness ==
    /\ canonOut.built
    /\ Len(canonOut.res.v) = 2
    /\ canonOut.res.v[1] # canonOut.res.v[2]

\* the value the claim gives for a derived request component
DerivedValue(m, c) ==
    LET u == m.uri
    IN  CASE c.t = "Method" -> m.method
          [] c.t = "TargetUri" -> uri_to_string(u)
          [] c.t = "Authority" -> u.authority.v
          [] c.t = "Scheme" -> u.scheme.v
          [] c.t = "Path" -> u.path
          [] c.t = "RequestTarget" ->
                IF u.query.some THEN u.path \o <<Ch("?")>> \o u.query.v ELSE u.path
          [] c.t = "Query" ->
                IF u.query.some THEN <<Ch("?")>> \o u.query.v ELSE <<Ch("?")>>

\* the component needs a part of the URI that the URI lacks
LacksPart(m, c) ==
    \/ c.t = "Authority" /\ ~m.uri.authority.some
    \/ c.t = "Scheme" /\ ~m.uri.scheme.some

\* C7: canonicalize_request returns the derived request components in the
\* order requested with the values of the table (@query is "?" + query, the
\* literal "?" when the URI has no query); @authority or @scheme on a URI
\* that lacks it fails with InvalidInput and no pairs.
C7_DerivedRequestComponents ==
    (canonIn.called /\ canonIn.message.kind = "request") =>
        LET m == canonIn.message
            cs == canonIn.components
            r == canonOut.res
        IN  /\ r.ok =>
                /\ Len(r.v) = Len(cs)
                /\ \A i \in 1..Len(cs) :
                       cs[i].t \in DerivedRequestTypes =>
                           /\ ~LacksPart(m, cs[i])
                           /\ r.v[i] = <<identifier(cs[i]), DerivedValue(m, cs[i])>>
            /\ \A i \in 1..Len(cs) :
                   (/\ LacksPart(m, cs[i])
                    /\ canonicalize_request(m, SubSeq(cs, 1, i - 1)).ok) =>
                       ~r.ok /\ r.kind = "InvalidInput" /\ r.v = <<>>

\* @query and @request-target were extracted from a URI that has no query
C7_Witness ==
    /\ canonIn.called /\ canonIn.message.kind = "request"
    /\ canonOut.res.ok
    /\ ~canonIn.message.uri.query.some
    /\ canonIn.components = <<Query, RequestTarget>>

\* the result of canonicalization up to and including component i
UpTo(i) == canonicalize(canonIn.message, SubSeq(canonIn.components, 1, i))

\* C8 as stated: the value of Header(name) is the matching field values in
\* header order joined by ", ", under the identifier lowercase(name); with no
\* matching field canonicalization fails with InvalidInput (header not
\* found) and returns no pairs.
C8_Original ==
    canonIn.called =>
        \A i \in 1..Len(canonIn.components) :
            LET c == canonIn.components[i]
                vals == MatchingValues(canonIn.message.headers, c.name)
            IN  (c.t = "Header" /\ UpTo(i - 1).ok) =>
                    IF vals # <<>>
                    THEN /\ UpTo(i).ok
                         /\ UpTo(i).v[i] = <<to_lowercase(c.name),
                                             Join(vals, COMMA_SPACE)>>
                    ELSE /\ ~UpTo(i).ok /\ UpTo(i).v = <<>>
                         /\ ~canonOut.res.ok /\ canonOut.res.v = <<>>
                         /\ canonOut.res.kind = "InvalidInput"
                         /\ canonOut.res.text = "Header not found"

\* C8 amended: as C8 when every matching field value is visible ASCII; a
\* matching field value that is not makes canonicalization fail with
\* InvalidInput (invalid header value) and no pairs.
C8_HeaderExtraction ==
    canonIn.called =>
        \A i \in 1..Len(canonIn.components) :
            LET c == canonIn.components[i]
                vals == MatchingValues(canonIn.message.headers, c.name)
                opaque == \E k \in 1..Len(vals) : \E j \in 1..Len(vals[k]) :
                              vals[k][j] = OBS
            IN  (c.t = "Header" /\ UpTo(i - 1).ok) =>
                    IF vals # <<>> /\ ~opaque
                    THEN /\ UpTo(i).ok
                         /\ UpTo(i).v[i] = <<to_lowercase(c.name),
                                             Join(vals, COMMA_SPACE)>>
                    ELSE /\ ~UpTo(i).ok /\ UpTo(i).v = <<>>
                         /\ ~canonOut.res.ok /\ canonOut.res.v = <<>>
                         /\ canonOut.res.kind = "InvalidInput"
                         /\ canonOut.res.text =
                                IF opaque THEN "Invalid header value"
                                ELSE "Header not found"

\* a header field that occurs twice was folded, under a name given in
\* another case
C8_Witness ==
    /\ canonIn.called /\ canonOut.res.ok
    /\ \E i \in 1..Len(canonIn.components) :
           /\ canonIn.components[i] = Header(S(<<"X","-","T","a","g">>))
           /\ canonOut.res.v[i] = <<X_TAG, S(<<"a", ",", " ", "b", " ">>)>>

\* the component is not valid for the direction of the message
WrongDirection(m, c) ==
    \/ m.kind = "request" /\ c.t = "Status"
    \/ m.kind = "response" /\ c.t \in DerivedRequestTypes

\* C9 as stated: canonicalize_request on any list containing Status, and
\* canonicalize_response on any list containing a derived request component,
\* fails with InvalidInput and returns no pairs.
C9_Original ==
    (/\ canonIn.called
     /\ \E i \in 1..Len(canonIn.components) :
            WrongDirection(canonIn.message, canonIn.components[i])) =>
        ~canonOut.res.ok /\ canonOut.res.v = <<>> /\ canonOut.res.kind = "InvalidInput"

\* C9 amended: on such a list canonicalization fails and returns no pairs;
\* the kind is InvalidInput, except that a custom DerivedComponent entry in
\* front of every other failing component makes it Unsupported.
C9_DirectionValidity ==
    (/\ canonIn.called
     /\ \E i \in 1..Len(canonIn.components) :
            WrongDirection(canonIn.message, canonIn.components[i])) =>
        LET cs == canonIn.components
            customFirst == \E j \in 1..Len(cs) :
                               /\ cs[j].t = "DerivedComponent"
                               /\ UpTo(j - 1).ok
        IN  /\ ~canonOut.res.ok /\ canonOut.res.v = <<>>
            /\ canonOut.res.kind = IF customFirst THEN "Unsupported"
                                   ELSE "InvalidInput"

\* a list with a valid component in front of the one of the wrong direction
C9_Witness ==
    /\ canonIn.called
    /\ Len(canonIn.components) = 2
    /\ ~WrongDirection(canonIn.message, canonIn.components[1])
    /\ UpTo(1).ok
    /\ WrongDirection(canonIn.message, canonIn.components[2])
    /\ canonOut.res.kind = "InvalidInput"

\* the field of a SignatureParams value under its name on the wire
Field(p, name) ==
    CASE name = "keyid" -> p.key_id
      [] name = "alg" -> p.alg
      [] name = "created" -> p.created
      [] name = "expires" -> p.expires
      [] name = "nonce" -> p.nonce
      [] name = "tag" -> p.tag

FieldOrder == <<"keyid", "alg", "created", "expires", "nonce", "tag">>

NameEq(name) ==
    CASE name = "keyid" -> KEYID_EQ
      [] name = "alg" -> ALG_EQ
      [] name = "created" -> CREATED_EQ
      [] name = "expires" -> EXPIRES_EQ
      [] name = "nonce" -> NONCE_EQ
      [] name = "tag" -> TAG_EQ

\* text is the bare decimal integer n: an optional '-' and digits only
BareDecimal(text, n) ==
    /\ text # <<>>
    /\ \A i \in 1..Len(text) : IsDigit(text[i]) \/ (i = 1 /\ text[i] = Ch("-"))
    /\ ParseI64(text) = Some(n)

\* piece is name=value for the field of that name: the value in double
\* quotes for a string, a bare decimal for an integer
IsPiece(piece, p, name) ==
    /\ StartsWith(piece, NameEq(name))
    /\ LET value == From(piece, Len(NameEq(name)))
       IN  IF name \in {"created", "expires"}
           THEN BareDecimal(value, Field(p, name).v)
           ELSE value = <<QUOTE>> \o Field(p, name).v \o <<QUOTE>>

\* C11: the serialization of a SignatureParams value lists the present
\* fields in the order keyid, alg, created, expires, nonce, tag, each as
\* name=value, joined by ';' with no separator in front or at the end; absent
\* fields are left out; strings are double-quoted, integers bare decimals.
C11_ParamsSerialization ==
    par.called =>
        LET p == par.params
            line == par.line
            present == SelectSeq(FieldOrder, LAMBDA name : Field(p, name).some)
            pieces == IF line = <<>> THEN <<>> ELSE Split(line, Ch(";"))
        IN  /\ Len(pieces) = Len(present)
            /\ \A i \in 1..Len(present) : IsPiece(pieces[i], p, present[i])
            /\ line # <<>> =>
                   line[1] # Ch(";") /\ line[Len(line)] # Ch(";")

\* a value with all six fields, the created time negative, was serialized
C11_Witness ==
    /\ par.called
    /\ \A i \in 1..Len(FieldOrder) : Field(par.params, FieldOrder[i]).some
    /\ par.params.created.v < 0
    /\ par.line # <<>>

\* C12: parsing the Signature-Input whose params part is the serialization
\* of a SignatureParams value yields that value: every field present iff it
\* was present, with the same value.
C12_ParamsRoundTrip ==
    par.parsed => par.res.ok /\ par.res.v.params = par.params

\* the last sign call succeeded and the message is as that call returned it
FreshlySigned == sgn.called /\ sgn.ok /\ ntamper = 0

\* the component identifiers, each in double quotes, separated by one space
QuotedIdentifiers(cs) ==
    Join([i \in 1..Len(cs) |-> Quoted(identifier(cs[i]))], <<Ch(" ")>>)

\* C13: the Signature-Input header a sign call writes is sig1= followed by
\* '(', the quoted identifiers of the covered components separated by
\* single spaces, ')', and, the params being present, ';' and the params
\* line.
C13_SignatureInputFormat ==
    FreshlySigned =>
        get_all(msg.headers, SIGNATURE_INPUT) =
            <<SIG1_EQ \o <<Ch("(")>> \o QuotedIdentifiers(sgn.components)
                \o <<Ch(")"), Ch(";")>>
                \o params_to_string(build_signature_params(sgn.keypair, sgn.now))>>

\* text is the base64 text of the bytes of a signature made by key pair k
IsBase64OfSignature(text, k) ==
    Len(text) = 1 /\ text[1].sig # <<>> /\ text[1].sig[1] = k

\* v is sig1=:<base64 of a signature by k>: , the colon-wrapped form
ColonWrapped(v, k) ==
    /\ StartsWith(v, SIG1_EQ_COLON)
    /\ Len(v) > Len(SIG1_EQ_COLON) + 1
    /\ v[Len(v)] = Ch(":")
    /\ IsBase64OfSignature(SubSeq(v, Len(SIG1_EQ_COLON) + 1, Len(v) - 1), k)

\* C14: the Signature header a sign call writes is sig1=: followed by the
\* base64 text of the signature bytes and a closing ':'.
C14_SignatureFormat ==
    FreshlySigned =>
        LET values == get_all(msg.headers, SIGNATURE)
        IN  Len(values) = 1 /\ ColonWrapped(values[1], sgn.keypair)

\* the message is the one the last sign call returned, with a ':' appended
\* to its Signature value and nothing else changed
ClosedBySender ==
    /\ sgn.called /\ sgn.ok
    /\ LET signed == sign_message(sgn.keypair, sgn.components, sgn.input, sgn.now).v
           value == header_get(signed.headers, SIGNATURE).v
       IN  msg = [signed EXCEPT !.headers =
                      header_insert(@, SIGNATURE, value \o <<Ch(":")>>)]

\* the component list covers one of the two signature headers
CoversSignatureHeader(cs) ==
    \E i \in 1..Len(cs) :
        /\ cs[i].t = "Header"
        /\ to_lowercase(cs[i].name) \in {SIGNATURE, SIGNATURE_INPUT}

\* C15: a Signature header of the form sig1=:<base64>: that carries the
\* signer's signature of the message is accepted: the verifier strips the
\* prefix and the closing ':' and decodes what remains.
C15_SignatureParsing ==
    (/\ vres.called
     /\ ClosedBySender
     /\ ~CoversSignatureHeader(sgn.components)
     /\ vres.public_key = sgn.keypair) =>
        vres.out.kind = "Ok"

\* the parameters of a Signature-Input header value: the pieces, separated
\* by ';', of what follows the first ')'
WirePieces(value) ==
    LET rest == From(value, IndexOf(value, Ch(")")))
    IN  IF rest = <<>> THEN <<>>
        ELSE Split(IF rest[1] = Ch(";") THEN Tail(rest) ELSE rest, Ch(";"))

\* the Signature-Input value the message carries
SignatureInputValue == header_get(msg.headers, SIGNATURE_INPUT).v

ED25519_ID == S(<<"e","d","2","5","5","1","9">>)
ECDSA_P256_ID ==
    S(<<"e","c","d","s","a","-","p","2","5","6","-","s","h","a","2","5","6">>)
ECDSA_SECP256K1_ID ==
    S(<<"e","c","d","s","a","-","s","e","c","p","2","5","6","k","1","-",
        "s","h","a","2","5","6">>)

\* C16: the Signature-Input a sign call writes carries keyid, the key_id of
\* the key pair, alg, an identifier that goes with the type of the key,
\* created, the clock reading of the call, and expires, 300 seconds later;
\* it carries neither nonce nor tag.
C16_SignerParams ==
    FreshlySigned =>
        LET pieces == WirePieces(SignatureInputValue)
            expected == [DefaultParams EXCEPT
                            !.key_id = Some(generate_key_id(sgn.keypair)),
                            !.created = Some(sgn.now),
                            !.expires = Some(sgn.now + 300)]
        IN  /\ Len(pieces) = 4
            /\ IsPiece(pieces[1], expected, "keyid")
            /\ pieces[2] \in
                   {ALG_EQ \o Quoted(a) :
                       a \in IF key_type(sgn.keypair) = "Ed25519"
                             THEN {ED25519_ID}
                             ELSE {ECDSA_P256_ID, ECDSA_SECP256K1_ID}}
            /\ IsPiece(pieces[3], expected, "created")
            /\ IsPiece(pieces[4], expected, "expires")
            /\ \A i \in 1..Len(pieces) :
                   ~StartsWith(pieces[i], NONCE_EQ) /\ ~StartsWith(pieces[i], TAG_EQ)

\* a response was signed by the secp256k1 key pair
C16_Witness ==
    /\ FreshlySigned
    /\ msg.kind = "response"
    /\ key_type(sgn.keypair) = "Secp256k1"
    /\ Len(WirePieces(SignatureInputValue)) = 4

\* C17: the alg parameter a sign call writes is ecdsa-secp256k1-sha256 for
\* a secp256k1 key pair and ed25519 for an Ed25519 key pair.
C17_AlgorithmIdentifier ==
    FreshlySigned =>
        \E i \in 1..Len(WirePieces(SignatureInputValue)) :
            WirePieces(SignatureInputValue)[i] =
                ALG_EQ \o Quoted(IF key_type(sgn.keypair) = "Secp256k1"
                                 THEN ECDSA_SECP256K1_ID ELSE ED25519_ID)

\* the message went through at least two successful sign calls and is as
\* the last of them returned it
SignedAgain == FreshlySigned /\ sgn.earlier # {}

\* the headers the last sign call produced
LastSigned == sign_message(sgn.keypair, sgn.components, sgn.input, sgn.now).v

\* C18: after successive successful sign calls on the same message it
\* carries exactly one Signature-Input and one Signature value, those of the
\* last call: it verifies under the public key of the last signer and not
\* under the key of an earlier, different signer.
C18_SigningReplaces ==
    SignedAgain =>
        /\ get_all(msg.headers, SIGNATURE_INPUT)
               = <<header_get(LastSigned.headers, SIGNATURE_INPUT).v>>
        /\ get_all(msg.headers, SIGNATURE)
               = <<header_get(LastSigned.headers, SIGNATURE).v>>
        /\ vres.called =>
               /\ vres.public_key = sgn.keypair => vres.out.kind = "Ok"
               /\ vres.public_key \in sgn.earlier \ {sgn.keypair} =>
                      vres.out.kind # "Ok"

LowerHex == <<"0","1","2","3","4","5","6","7","8","9","a","b","c","d","e","f">>

\* the value of a lowercase hex digit
HexVal(c) == (CHOOSE i \in 1..16 : LowerHex[i] = c.ch) - 1

\* C20: the key_id of every key pair a constructor returned equals the
\* key_id of its public key, and is the 16 lowercase hex digits of the first
\* 8 bytes of the SHA-256 digest of the public key bytes.
C20_KeyIdInvariant ==
    \A i \in 1..Len(kps) :
        kps[i].res.ok =>
            LET keypair == kps[i].res.v
                id == keypair_key_id(keypair)
                digest == Sha256(keypair_public_key(keypair))
            IN  /\ id = key_id(keypair_public_key(keypair))
                /\ Len(id) = 16
                /\ \A j \in 1..Len(id) :
                       id[j].sig = <<>> /\ id[j].ch \in Range(LowerHex)
                /\ \A b \in 1..8 :
                       16 * HexVal(id[2 * b - 1]) + HexVal(id[2 * b]) = digest[b]

\* key pairs were constructed by generate, from bytes and from parts, the
\* last with a public key that is not the one of its private key
C20_Witness ==
    /\ Len(kps) = 2
    /\ kps[1].res.ok /\ kps[1].ctor \in {"generate", "from_private_key_bytes"}
    /\ kps[2].res.ok /\ kps[2].ctor = "from_parts"
    /\ private_public_key(kps[2].res.v.private_key) # kps[2].res.v.public_key

\* the last direct call verified a signature under a key of the other
\* algorithm
AlgorithmMismatch == cry.op = "verify" /\ key_type(cry.key) # cry.signature.alg

\* C21 (algorithm mismatch): verify under a public key whose algorithm is not
\* the signature's returns InvalidKeyType, for every message, never Ok and
\* never Verification; when the algorithms agree the result is Ok or
\* Verification, never InvalidKeyType.
C21_AlgorithmMismatch ==
    cry.op = "verify" =>
        IF key_type(cry.key) # cry.signature.alg
        THEN ~cry.res.ok /\ cry.res.kind = "InvalidKeyType"
        ELSE cry.res.ok \/ cry.res.kind = "Verification"

\* a secp256k1 key was asked to verify the Ed25519 signature made over the
\* very message it is given
C21_Witness ==
    /\ AlgorithmMismatch
    /\ key_type(cry.key) = "Secp256k1"
    /\ cry.signature.base = cry.message
    /\ cry.res.kind = "InvalidKeyType"

\* the length PublicKey::from_bytes expects for a key type
PublicKeyLength(kt) == IF kt = "Ed25519" THEN 32 ELSE 33

\* the last direct call was from_bytes on bytes of the wrong length, and it
\* failed with InvalidInput
WrongLengthRejected ==
    (cry.op = "from_bytes" /\ cry.bytes.len # PublicKeyLength(cry.key_type))
        => ~cry.res.ok /\ cry.res.kind = "InvalidInput"

\* the bytes are of the expected length and are no valid curve point
NotAPoint ==
    /\ cry.bytes.len = PublicKeyLength(cry.key_type)
    /\ \/ public_key_of_bytes(cry.key_type, cry.bytes) \in InvalidPublicKeys
       \/ cry.key_type = "Secp256k1" /\ cry.bytes.lead \notin {2, 3}

\* C23 (public key construction validates its input): from_bytes returns
\* InvalidInput when the length is not 32 (Ed25519) or 33 (secp256k1) and an
\* error when the bytes are no valid curve point (for secp256k1 also when
\* the leading byte is neither 0x02 nor 0x03), so that every PublicKey it
\* returns holds a valid point.
C23_PublicKeyValidation ==
    cry.op = "from_bytes" =>
        /\ WrongLengthRejected
        /\ NotAPoint => ~cry.res.ok
        /\ cry.res.ok => cry.res.v \notin InvalidPublicKeys

\* the created parameter of the Signature-Input a message carries
CreatedOf(m) ==
    parse_signature_input(
        From(header_get(m.headers, SIGNATURE_INPUT).v, Len(SIG1_EQ))).v.params.created

\* the last two successful sign calls were made by the same signer
SameSigner ==
    /\ FreshlySigned /\ sgn.prev.ok
    /\ sgn.prev.keypair = sgn.keypair /\ sgn.prev.config = sgn.config

\* C22 (timestamp ordering): on a non-decreasing clock the created values of
\* successive sign calls of one signer are non-decreasing, and two sign
\* calls on identical messages whose clock readings are at least a second
\* apart write different Signature-Input values and different Signature
\* values.
C22_TimestampOrdering ==
    SameSigner =>
        /\ CreatedOf(sgn.prev.output).some /\ CreatedOf(msg).some
        /\ CreatedOf(sgn.prev.output).v <= CreatedOf(msg).v
        /\ (sgn.prev.input = sgn.input /\ sgn.now >= sgn.prev.now + 1) =>
               /\ header_get(msg.headers, SIGNATURE_INPUT)
                      # header_get(sgn.prev.output.headers, SIGNATURE_INPUT)
               /\ header_get(msg.headers, SIGNATURE)
                      # header_get(sgn.prev.output.headers, SIGNATURE)

\* one signer signed the same message twice, one second apart
C22_Witness ==
    /\ SameSigner
    /\ sgn.prev.input = sgn.input
    /\ sgn.now = sgn.prev.now + 1
    /\ CreatedOf(msg).v = CreatedOf(sgn.prev.output).v + 1

\* a message that was signed once and not modified was verified under the
\* signer's public key
VerifiedBySigner ==
    /\ FreshlySigned /\ nsign = 1
    /\ vres.called /\ vres.public_key = sgn.keypair

\* the verifier's two clock readings lie in [t - 300, t + 300], t being the
\* signer's clock reading
InsideWindow ==
    /\ sgn.now - 300 <= vres.now_created
    /\ vres.now_expires <= sgn.now + 300

ConfiguredList ==
    IF sgn.config # DefaultComponents THEN sgn.config
    ELSE IF sgn.input.kind = "request" THEN DefaultComponents
    ELSE <<Status, Header(CONTENT_TYPE)>>

\* the Signature-Input the message carries lists the identifiers of cs, in
\* order, and its signature is over the values of cs in the signed message
CoversExactly(cs) ==
    LET v == SignatureInputValue
        close == IndexOf(v, Ch(")"))
        canonical == canonicalize(sgn.input, cs)
        carried == header_get(msg.headers, SIGNATURE).v
    IN  /\ SubSeq(v, 1, close)
               = SIG1_EQ \o <<Ch("(")>> \o QuotedIdentifiers(cs) \o <<Ch(")")>>
        /\ canonical.ok
        /\ carried = SIG1_EQ_COLON \o base64_encode(signature_to_bytes(
               keypair_sign(sgn.keypair,
                   build_signature_base(canonical.v, From(v, Len(SIG1_EQ))))))

\* C28 (configured components are the covered components): sign_request
\* and sign_response canonicalize with the configured list and write a
\* Signature-Input that lists exactly its identifiers, in order; with
\* nothing configured the list is [Method, Path, Authority] for requests
\* and [Status, Header("content-type")] for responses.
C28_ConfiguredComponents == FreshlySigned => CoversExactly(ConfiguredList)

\* what the sign calls do cover: requests the configured list, responses
\* [Status, Header("content-type")] whatever is configured
CoveredInFact ==
    FreshlySigned =>
        CoversExactly(IF sgn.input.kind = "request" THEN sgn.config
                      ELSE <<Status, Header(CONTENT_TYPE)>>)

\* the variants of crate::error::Error
ErrorKinds ==
    {"KeyGeneration", "Signature", "Verification", "InvalidKeyFormat",
     "Serialization", "Base64", "Pem", "HttpSignature", "InvalidKeyType",
     "Io", "Other", "InvalidInput", "Unsupported"}

\* the steps of a verification call, in the order the call takes them
StepOrder ==
    <<"extract", "parse", "params", "canonicalize", "base64", "decode", "verify">>

StepIndex(step) == CHOOSE i \in 1..Len(StepOrder) : StepOrder[i] = step

\* the call returned from one of its steps, with Ok from the last one only,
\* and computed nothing that belongs to a later step
EndedAtOneStep ==
    /\ vres.out.step \in Range(StepOrder)
    /\ vres.out.kind = "Ok" => vres.out.step = "verify"
    /\ StepIndex(vres.out.step) <= 1 => vres.out.sig_input = <<>>
    /\ StepIndex(vres.out.step) <= 2 => vres.out.parsed = NoParsed
    /\ StepIndex(vres.out.step) <= 4 => vres.out.base = <<>>

\* C24 (verifier totality): for every incoming message, whatever its
\* Signature-Input and Signature values (params with empty values such as
\* keyid= included), a verification call ends in exactly one outcome, Ok or
\* one error kind; it never aborts without an outcome, and once a step
\* fails no later step runs.
C24_VerifierTotality ==
    vres.called =>
        /\ vres.out.kind \in {"Ok"} \cup ErrorKinds
        /\ EndedAtOneStep

\* the outcomes of the calls that do not abort
TotalUnlessAborted ==
    (vres.called /\ vres.out.kind # "Panic") =>
        /\ vres.out.kind \in {"Ok"} \cup ErrorKinds
        /\ EndedAtOneStep

\* the Signature-Input the verifier received parses, and lists a component
\* that is not valid for the direction of the message
ListsWrongDirection ==
    /\ vres.called /\ vres.out.step # "extract"
    /\ LET parsed == parse_signature_input(vres.out.sig_input)
       IN  /\ parsed.ok
           /\ \E i \in 1..Len(parsed.v.components) :
                  WrongDirection(msg, parsed.v.components[i])

\* C25 (verifier step order): a component that is invalid for the direction
\* of the message is rejected when the Signature-Input is parsed, before
\* the time policy and the key-id check: a request whose Signature-Input
\* lists @status and whose expires lies in the past is rejected with
\* InvalidInput, not as expired.
C25_StepOrder ==
    ListsWrongDirection =>
        /\ vres.out.kind = "InvalidInput"
        /\ ~(vres.out.kind = "Verification"
               /\ vres.out.text \in {"Signature expired",
                                     "Signature created in the future",
                                     "Key ID mismatch"})

\* where the code rejects such a component: in the canonicalization, which
\* the call reaches only when the time policy and the key-id check passed
RejectedAfterParams ==
    ListsWrongDirection =>
        \/ vres.out.step = "params" /\ vres.out.kind = "Verification"
        \/ vres.out.step = "canonicalize" /\ vres.out.kind = "InvalidInput"

\* the pieces after the component list of the Signature-Input the verifier
\* received, as the parameter loop sees them
ReceivedPieces ==
    LET v == vres.out.sig_input
        pieces == Split(From(v, IndexOf(v, Ch(")"))), Ch(";"))
    IN  {Trim(pieces[i]) : i \in 1..Len(pieces)}

\* a created or expires piece whose value is no signed decimal
MalformedTime(piece) ==
    /\ StartsWith(piece, CREATED_EQ) \/ StartsWith(piece, EXPIRES_EQ)
    /\ ~ParseI64(From(piece, 8)).some

\* the verifier got as far as the parameters of a Signature-Input that
\* carries a malformed created or expires
MalformedTimeReceived ==
    /\ vres.called /\ vres.out.kind # "Panic"
    /\ vres.out.step # "extract"
    /\ IndexOf(vres.out.sig_input, Ch(")")) > 0
    /\ parse_components(SplitWhitespace(TrimStartMatches(
           SubSeq(vres.out.sig_input, 1,
                  IndexOf(vres.out.sig_input, Ch(")")) - 1), Ch("(")))).ok
    /\ \E piece \in ReceivedPieces : MalformedTime(piece)

\* C26 (malformed time parameters are not skipped): a received created or
\* expires whose value is not a signed 64-bit decimal makes the
\* verification fail with InvalidInput when the Signature-Input is parsed;
\* the parameter is never treated as absent.
C26_MalformedTime ==
    MalformedTimeReceived =>
        /\ vres.out.kind = "InvalidInput"
        /\ vres.out.step = "parse"

\* what the code does with such a parameter: the call goes on with the
\* field absent
TreatedAsAbsent ==
    MalformedTimeReceived =>
        /\ vres.out.step \notin {"extract", "parse"}
        /\ \A piece \in ReceivedPieces :
               /\ (MalformedTime(piece) /\ StartsWith(piece, EXPIRES_EQ)) =>
                      ~vres.out.parsed.params.expires.some
               /\ (MalformedTime(piece) /\ StartsWith(piece, CREATED_EQ)) =>
                      ~vres.out.parsed.params.created.some

\* the message the last sign call returned
SignedMessage == sign_message(sgn.keypair, sgn.components, sgn.input, sgn.now).v

\* the verifier of the signer's public key was given, inside the validity
\* window, a message the signer signed without covering a signature header
GenuineForVerifier ==
    /\ sgn.called /\ sgn.ok /\ vres.called
    /\ vres.public_key = sgn.keypair
    /\ InWindow
    /\ ~CoversSignatureHeader(sgn.components)

\* C29 (signature label selection): the verifier selects the dictionary
\* entry labelled sig1 if present and otherwise the lexicographically first
\* label; sibling labels are tolerated and ignored, and a validly signed
\* message whose single label is not sig1 is verified, not rejected.
C29_LabelSelection ==
    (/\ GenuineForVerifier
     /\ msg \in {Relabelled(SignedMessage, SIG2), WithSibling(SignedMessage)}) =>
        vres.out.kind = "Ok"

\* what the code does with labels: a message whose label is not sig1 is
\* rejected when the headers are read, and a sibling entry is taken as part
\* of the sig1 value
LabelsInFact ==
    /\ (GenuineForVerifier /\ msg = Relabelled(SignedMessage, SIG2)) =>
           /\ vres.out.kind = "InvalidInput"
           /\ vres.out.text = "Invalid signature header format"
    /\ (GenuineForVerifier /\ msg = WithSibling(SignedMessage)) =>
           /\ vres.out.kind = "InvalidInput"
           /\ vres.out.text = "Invalid base64 signature"

\* the eight derived components of the table
DerivedTable ==
    {Method, TargetUri, Authority, Scheme, RequestTarget, Path, Query, Status}

\* the component the table gives for a token: the derived component with
\* that identifier, or the header of that name
TableComponent(token) ==
    LET id == TrimMatches(token, QUOTE)
    IN  IF \E c \in DerivedTable : identifier(c) = id
        THEN CHOOSE c \in DerivedTable : identifier(c) = id
        ELSE Header(id)

\* the token starts with @ once its quotes are stripped and is not in the
\* table
UnknownDerived(token) ==
    LET id == TrimMatches(token, QUOTE)
    IN  /\ id # <<>> /\ id[1] = Ch("@")
        /\ \A c \in DerivedTable : identifier(c) # id

\* each token list with the text after the label of the Signature-Input
\* that lists it
TokenInputs ==
    {<<tokens, SubSeq(TokenSignatureInput(tokens), Len(SIG1_EQ) + 1,
                      Len(TokenSignatureInput(tokens)))>> :
        tokens \in TokenLists}

\* C30 (component token mapping on parse): each whitespace-separated token
\* inside the parentheses of a Signature-Input maps, its surrounding double
\* quotes stripped, to the derived component with that identifier if it is
\* one of the eight of the table; any other token that starts with @ makes
\* the parse fail with Unsupported, before the time policy and the key-id
\* check; every other token maps to Header(token); the parsed list has the
\* length and the order of the tokens.
C30_TokenMapping ==
    (vres.called /\ vres.out.step # "extract") =>
        \A listed \in TokenInputs :
            vres.out.sig_input = listed[2] =>
                IF \E i \in 1..Len(listed[1]) : UnknownDerived(listed[1][i])
                THEN /\ vres.out.kind = "Unsupported"
                     /\ vres.out.step = "parse"
                ELSE /\ vres.out.step = "params"
                     /\ Len(vres.out.parsed.components) = Len(listed[1])
                     /\ \A i \in 1..Len(listed[1]) :
                            vres.out.parsed.components[i]
                                = TableComponent(listed[1][i])

\* an unquoted @path and a header name in upper case were parsed, in this
\* order, from a Signature-Input that has expired
C30_Witness ==
    /\ vres.called
    /\ header_get(msg.headers, SIGNATURE_INPUT)
           = Some(TokenSignatureInput(
                 <<AT_PATH, Quoted(S(<<"X","-","T","a","g">>))>>))
    /\ vres.out.parsed.components = <<Path, Header(S(<<"X","-","T","a","g">>))>>
    /\ vres.out.text = "Signature expired"

====
